---------------------------- MODULE Spec2Model ----------------------------
(***************************************************************************)
(* Model of apienvelope: the error serializer (utils/errorSerializer),     *)
(* the status code mapper (utils/statusCodeMapper), the ApiError class and *)
(* ResponseFormatter.formatError.                                          *)
(*                                                                         *)
(* JavaScript values are modelled as records tagged by field t:            *)
(*   primitives  [t |-> "str"|"num"|"bool"|"null"|"undef", v |-> "..."]    *)
(*   references  [t |-> "ref", id |-> node]   an object of the input heap  *)
(*   fresh trees [t |-> "obj", ents |-> ...], [t |-> "arr", items |-> ...] *)
(* Property names are sequences of one-character strings, so that          *)
(* toLowerCase / toUpperCase are computed character by character.          *)
(***************************************************************************)
EXTENDS Integers, Sequences, FiniteSets, TLC

VARIABLES
    heap,            \* objects reachable from the error's details: id -> node
    err,             \* the error value handed to the operation
    opts,            \* SerializationOptions / FormatterConfig in force
    result,          \* value returned (or exception raised) by the last call
    pc,              \* "ready" before the call, "done" after it
    config,          \* ResponseFormatter.config
    meta,            \* the meta argument of formatError
    customMappings,  \* StatusCodeMapper.customMappings, in Map insertion order
    call,            \* last call: operation and arguments
    log,             \* invocations of the user's hooks and formatter, in order
    req,             \* the Express request a middleware is serving
    res,             \* the Express response of that request
    mw               \* what the middleware's closure captured when it was created

vars == <<heap, err, opts, result, pc, config, meta, customMappings, call,
          log, req, res, mw>>

-----------------------------------------------------------------------------
(* Characters and strings                                                  *)

UpperLetters ==
    <<"A","B","C","D","E","F","G","H","I","J","K","L","M",
      "N","O","P","Q","R","S","T","U","V","W","X","Y","Z">>

LowerLetters ==
    <<"a","b","c","d","e","f","g","h","i","j","k","l","m",
      "n","o","p","q","r","s","t","u","v","w","x","y","z">>

LowerChar(c) ==
    IF \E i \in 1..26 : UpperLetters[i] = c
    THEN LowerLetters[CHOOSE i \in 1..26 : UpperLetters[i] = c]
    ELSE c

UpperChar(c) ==
    IF \E i \in 1..26 : LowerLetters[i] = c
    THEN UpperLetters[CHOOSE i \in 1..26 : LowerLetters[i] = c]
    ELSE c

\* String.prototype.toLowerCase
toLowerCase(s) == [i \in 1..Len(s) |-> LowerChar(s[i])]

\* String.prototype.toUpperCase
toUpperCase(s) == [i \in 1..Len(s) |-> UpperChar(s[i])]

Digits == <<"0","1","2","3","4","5","6","7","8","9">>

RECURSIVE IndexKey(_)
\* the property name of array index n, as Object.entries reports it
IndexKey(n) ==
    IF n < 10 THEN <<Digits[n + 1]>>
    ELSE IndexKey(n \div 10) \o <<Digits[(n % 10) + 1]>>

-----------------------------------------------------------------------------
(* Property names used by the code and by the inputs                       *)

K ==
    [proto         |-> <<"_","_","p","r","o","t","o","_","_">>,
     constructor   |-> <<"c","o","n","s","t","r","u","c","t","o","r">>,
     prototype     |-> <<"p","r","o","t","o","t","y","p","e">>,
     truncated     |-> <<"_","t","r","u","n","c","a","t","e","d">>,
     circular      |-> <<"_","c","i","r","c","u","l","a","r">>,
     name          |-> <<"n","a","m","e">>,
     message       |-> <<"m","e","s","s","a","g","e">>,
     code          |-> <<"c","o","d","e">>,
     custom        |-> <<"c","u","s","t","o","m">>,
     password      |-> <<"p","a","s","s","w","o","r","d">>,
     Password      |-> <<"P","a","s","s","w","o","r","d">>,
     token         |-> <<"t","o","k","e","n">>,
     TOKEN         |-> <<"T","O","K","E","N">>,
     secret        |-> <<"s","e","c","r","e","t">>,
     apiKey        |-> <<"a","p","i","K","e","y">>,
     authorization |-> <<"a","u","t","h","o","r","i","z","a","t","i","o","n">>,
     id            |-> <<"i","d">>,
     n             |-> <<"n">>,
     user          |-> <<"u","s","e","r">>,
     items         |-> <<"i","t","e","m","s">>,
     self          |-> <<"s","e","l","f">>,
     a             |-> <<"a">>,
     b             |-> <<"b">>,
     processed     |-> <<"p","r","o","c","e","s","s","e","d">>,
     requestId     |-> <<"r","e","q","u","e","s","t","I","d">>,
     correlationId |-> <<"c","o","r","r","e","l","a","t","i","o","n","I","d">>,
     modified      |-> <<"m","o","d","i","f","i","e","d">>,
     serverTime    |-> <<"s","e","r","v","e","r","T","i","m","e">>,
     page          |-> <<"p","a","g","e">>,
     limit         |-> <<"l","i","m","i","t">>,
     cursor        |-> <<"c","u","r","s","o","r">>,
     NaN           |-> <<"N","a","N">>,
     Infinity      |-> <<"I","n","f","i","n","i","t","y">>,
     big           |-> <<
         <<"1","8","0","1","4","3","9","8","5","0","9","4","8","1","9","8","4">>,
         <<"1","e","+","2","1">>,
         <<"1","e","+","1","0","0">> >>]

-----------------------------------------------------------------------------
(* Values                                                                  *)

Str(s)   == [t |-> "str", v |-> s]
Num(s)   == [t |-> "num", v |-> s]
True     == [t |-> "bool", v |-> "true"]
Null     == [t |-> "null", v |-> "null"]
Undef    == [t |-> "undef", v |-> "undefined"]
Ref(id)  == [t |-> "ref", id |-> id]
Obj(es)  == [t |-> "obj", ents |-> es]
Arr(is)  == [t |-> "arr", items |-> is]

\* the outcome of a call that threw instead of returning
Raised   == [t |-> "raised", v |-> "exception"]

\* JavaScript truthiness of a value
Truthy(v) ==
    /\ v.t \notin {"null", "undef"}
    /\ v # Str("")
    /\ v # Num("0")

\* typeof v === 'object' && v !== null
IsObject(v) == v.t \in {"ref", "obj", "arr"}

\* Array.isArray(v)
IsArray(h, v) ==
    \/ v.t = "arr"
    \/ v.t = "ref" /\ h[v.id].kind = "arr"

\* v instanceof Error
IsErrorValue(h, v) == v.t = "ref" /\ h[v.id].kind = "err"

\* the elements of an array value
ArrayItems(h, v) == IF v.t = "arr" THEN v.items ELSE h[v.id].items

IndexedEntries(items) == [i \in 1..Len(items) |-> <<IndexKey(i - 1), items[i]>>]

\* Object.entries(v): own enumerable string-keyed properties, in order
ObjectEntries(h, v) ==
    IF v.t = "obj" THEN v.ents
    ELSE IF v.t = "arr" THEN IndexedEntries(v.items)
    ELSE IF h[v.id].kind = "arr" THEN IndexedEntries(h[v.id].items)
    ELSE h[v.id].ents

\* obj[key] on a freshly built object
GetProp(o, key) ==
    IF \E i \in 1..Len(o.ents) : o.ents[i][1] = key
    THEN o.ents[CHOOSE i \in 1..Len(o.ents) : o.ents[i][1] = key][2]
    ELSE Undef

-----------------------------------------------------------------------------
(* Error classes                                                           *)

PredefinedErrors ==
    {"ValidationError", "BadRequestError", "UnauthorizedError",
     "ForbiddenError", "NotFoundError", "ConflictError",
     "UnprocessableEntityError", "RateLimitError", "InternalServerError",
     "ServiceUnavailableError"}

\* the superclass of a class; "Error" is the root
Parent(c) ==
    CASE c \in PredefinedErrors      -> "ApiError"
      [] c = "BusinessLogicError"    -> "ApiError"
      [] c = "ApiError"              -> "Error"
      [] c = "SubCustomError"        -> "CustomError"
      [] OTHER                       -> "Error"

RECURSIVE SubclassOf(_, _)
SubclassOf(c, d) ==
    \/ c = d
    \/ c # "Error" /\ SubclassOf(Parent(c), d)

\* error instanceof ErrorClass
InstanceOf(error, ErrorClass) == SubclassOf(error.cls, ErrorClass)

\* statusCode and code a predefined subclass passes to super()
PredefinedStatus(c) ==
    CASE c = "ValidationError"          -> 400
      [] c = "BadRequestError"          -> 400
      [] c = "UnauthorizedError"        -> 401
      [] c = "ForbiddenError"           -> 403
      [] c = "NotFoundError"            -> 404
      [] c = "ConflictError"            -> 409
      [] c = "UnprocessableEntityError" -> 422
      [] c = "RateLimitError"           -> 429
      [] c = "InternalServerError"      -> 500
      [] c = "ServiceUnavailableError"  -> 503

PredefinedCode(c) ==
    CASE c = "ValidationError"          -> "VALIDATION_ERROR"
      [] c = "BadRequestError"          -> "BAD_REQUEST"
      [] c = "UnauthorizedError"        -> "UNAUTHORIZED"
      [] c = "ForbiddenError"           -> "FORBIDDEN"
      [] c = "NotFoundError"            -> "NOT_FOUND"
      [] c = "ConflictError"            -> "CONFLICT"
      [] c = "UnprocessableEntityError" -> "UNPROCESSABLE_ENTITY"
      [] c = "RateLimitError"           -> "RATE_LIMIT_EXCEEDED"
      [] c = "InternalServerError"      -> "INTERNAL_ERROR"
      [] c = "ServiceUnavailableError"  -> "SERVICE_UNAVAILABLE"

\* an absent numeric option
NoNumber == [present |-> FALSE, n |-> 0]
SomeNumber(n) == [present |-> TRUE, n |-> n]

\* new ApiError(message, options), called directly or through super():
\* code = options.code || 'INTERNAL_ERROR', statusCode = options.statusCode || 500;
\* with no context and no isOperational option, context is undefined and
\* isOperational is true
ApiError(cls, message, code, statusCode, details, fields, stack) ==
    [cls        |-> cls,
     message    |-> message,
     code       |-> IF code = "" THEN "INTERNAL_ERROR" ELSE code,
     statusCode |-> IF statusCode.present /\ statusCode.n # 0
                    THEN statusCode.n ELSE 500,
     details    |-> details,
     fields     |-> fields,
     stack      |-> stack,
     context    |-> Undef,
     isOperational |-> TRUE]

\* the options context and isOperational of new ApiError(message, options):
\* this.context = options.context; this.isOperational = options.isOperational ?? true
WithOptions(error, context, isOperational) ==
    [error EXCEPT !.context = context, !.isOperational = isOperational]

\* new ValidationError(...), new NotFoundError(...), ...: the subclass fixes
\* code and statusCode, the caller's options supply the rest;
\* InternalServerError also fixes isOperational: false
PredefinedError(cls, message, details, fields, stack) ==
    [ApiError(cls, message, PredefinedCode(cls),
              SomeNumber(PredefinedStatus(cls)), details, fields, stack)
        EXCEPT !.isOperational = (cls # "InternalServerError")]

\* an error that is not an ApiError: Error, TypeError, a user class
StandardError(cls, message, stack) ==
    [cls        |-> cls,
     message    |-> message,
     code       |-> "",
     statusCode |-> 0,
     details    |-> Undef,
     fields     |-> Undef,
     stack      |-> stack]

\* ApiError.prototype.serialize(includeStack)
Absent == [t |-> "absent", v |-> "absent"]

serialize(error, includeStack) ==
    [code       |-> error.code,
     message    |-> error.message,
     statusCode |-> error.statusCode,
     details    |-> IF Truthy(error.details) THEN error.details ELSE Absent,
     fields     |-> IF Truthy(error.fields) THEN error.fields ELSE Absent,
     context    |-> IF Truthy(error.context) THEN error.context ELSE Absent,
     stack      |-> IF includeStack /\ Truthy(error.stack)
                    THEN error.stack ELSE Absent]

-----------------------------------------------------------------------------
(* utils/errorSerializer                                                   *)

DepthLimit == 10
ArrayLimit == 100

Redacted        == Str("[REDACTED]")
TruncatedMarker == Obj(<< <<K.truncated, True>> >>)
CircularMarker  == Obj(<< <<K.circular, True>> >>)

\* key === '__proto__' || key === 'constructor' || key === 'prototype'
IsPollutionKey(key) == key \in {K.proto, K.constructor, K.prototype}

\* lowerSensitiveFields.includes(key.toLowerCase())
IsSensitiveKey(key, sensitiveFields) ==
    \E i \in 1..Len(sensitiveFields) :
        toLowerCase(sensitiveFields[i]) = toLowerCase(key)

RECURSIVE maskSensitiveFields(_, _, _, _)
RECURSIVE MaskEntries(_, _, _, _)

\* one iteration of the loop over Object.entries(obj) of maskSensitiveFields:
\* the entries it adds to masked
MaskEntry(h, key, value, sensitiveFields, depth) ==
    CASE IsPollutionKey(key) -> <<>>
      [] ~IsPollutionKey(key) /\ IsSensitiveKey(key, sensitiveFields) ->
             << <<key, Redacted>> >>
      [] /\ ~IsPollutionKey(key) /\ ~IsSensitiveKey(key, sensitiveFields)
         /\ Truthy(value) /\ IsObject(value) /\ ~IsArray(h, value) ->
             << <<key, maskSensitiveFields(h, value, sensitiveFields,
                                           depth + 1)>> >>
      [] OTHER -> << <<key, value>> >>

\* the loop over Object.entries(obj), entries in order (evaluated by halves)
MaskEntries(h, ents, sensitiveFields, depth) ==
    CASE Len(ents) = 0 -> <<>>
      [] Len(ents) = 1 ->
             MaskEntry(h, ents[1][1], ents[1][2], sensitiveFields, depth)
      [] OTHER ->
             MaskEntries(h, SubSeq(ents, 1, Len(ents) \div 2),
                         sensitiveFields, depth)
               \o MaskEntries(h, SubSeq(ents, Len(ents) \div 2 + 1, Len(ents)),
                              sensitiveFields, depth)

maskSensitiveFields(h, obj, sensitiveFields, depth) ==
    IF depth > DepthLimit THEN TruncatedMarker
    ELSE [t    |-> "obj",
          ents |-> MaskEntries(h, ObjectEntries(h, obj), sensitiveFields, depth)]

RECURSIVE safeSerializeDetails(_, _, _, _)
RECURSIVE SafeEntries(_, _, _, _)
RECURSIVE SafeItems(_, _, _, _)

\* value.slice(0, 100)
SliceArray(items) ==
    SubSeq(items, 1, IF Len(items) < ArrayLimit THEN Len(items) ELSE ArrayLimit)

\* value.slice(0, 100).map(item => ...), items in order (evaluated by
\* halves); the WeakSet seen is shared by all the recursive calls, so it is
\* passed from each item to the next and returned
SafeItems(h, items, seen, depth) ==
    CASE Len(items) = 0 -> [seen |-> seen, out |-> <<>>]
      [] Len(items) = 1 /\ ~IsObject(items[1]) ->
             [seen |-> seen, out |-> items]
      [] Len(items) = 1 /\ IsObject(items[1]) ->
             LET r == safeSerializeDetails(h, items[1], seen, depth + 1)
             IN  [seen |-> r.seen, out |-> <<r.out>>]
      [] OTHER ->
             LET mid == Len(items) \div 2
                 l   == SafeItems(h, SubSeq(items, 1, mid), seen, depth)
                 r   == SafeItems(h, SubSeq(items, mid + 1, Len(items)),
                                  l.seen, depth)
             IN  [out |-> l.out \o r.out, seen |-> r.seen]

\* one iteration of the loop over Object.entries(details) of
\* safeSerializeDetails: the entries it adds to result, and seen afterwards
SafeEntry(h, key, value, seen, depth) ==
    CASE IsPollutionKey(key) -> [seen |-> seen, out |-> <<>>]
      [] ~IsPollutionKey(key) /\ ~IsObject(value) ->
             [seen |-> seen, out |-> << <<key, value>> >>]
      [] ~IsPollutionKey(key) /\ IsObject(value) /\ IsErrorValue(h, value) ->
             [seen |-> seen,
              out  |-> << <<key, Obj(<< <<K.name, h[value.id].name>>,
                                        <<K.message, h[value.id].message>> >>)>> >>]
      [] ~IsPollutionKey(key) /\ IsObject(value) /\ IsArray(h, value) ->
             LET r == SafeItems(h, SliceArray(ArrayItems(h, value)),
                                seen, depth)
             IN  [seen |-> r.seen, out |-> << <<key, Arr(r.out)>> >>]
      [] OTHER ->
             LET r == safeSerializeDetails(h, value, seen, depth + 1)
             IN  [seen |-> r.seen, out |-> << <<key, r.out>> >>]

\* the loop over Object.entries(details), entries in order (by halves)
SafeEntries(h, ents, seen, depth) ==
    CASE Len(ents) = 0 -> [seen |-> seen, out |-> <<>>]
      [] Len(ents) = 1 -> SafeEntry(h, ents[1][1], ents[1][2], seen, depth)
      [] OTHER ->
             LET mid == Len(ents) \div 2
                 l   == SafeEntries(h, SubSeq(ents, 1, mid), seen, depth)
                 r   == SafeEntries(h, SubSeq(ents, mid + 1, Len(ents)),
                                    l.seen, depth)
             IN  [out |-> l.out \o r.out, seen |-> r.seen]

safeSerializeDetails(h, details, seen, depth) ==
    CASE depth > DepthLimit -> [seen |-> seen, out |-> TruncatedMarker]
      [] depth <= DepthLimit /\ details.id \in seen ->
             [seen |-> seen, out |-> CircularMarker]
      [] OTHER ->
             LET r == SafeEntries(h, ObjectEntries(h, details),
                                  seen \cup {details.id}, depth)
             IN  [seen |-> r.seen, out |-> Obj(r.out)]

\* const defaultOptions
defaultOptions ==
    [includeStack      |-> FALSE,
     maskSensitiveData |-> TRUE,
     sensitiveFields   |-> <<K.password, K.token, K.secret, K.apiKey,
                             K.authorization>>,
     customSerializers |-> <<>>]

\* the user-supplied ErrorSerializer functions the model draws from
\*   "fields": e => ({code: 'CUSTOM', message: e.message, custom: e.details})
\*   "bare"  : e => ({custom: e.details})
\*   "raise" : e => { throw ... }
RunSerializer(sid, error) ==
    CASE sid = "fields" -> Obj(<< <<K.code, Str("CUSTOM")>>,
                                  <<K.message, Str(error.message)>>,
                                  <<K.custom, error.details>> >>)
      [] sid = "bare"   -> Obj(<< <<K.custom, error.details>> >>)
      [] sid = "raise"  -> Raised

\* the first entry of customSerializers whose class the error is an instance of
MatchingSerializers(error, customSerializers) ==
    {i \in 1..Len(customSerializers) :
        InstanceOf(error, customSerializers[i][1])}

FirstIndex(S) == CHOOSE i \in S : \A j \in S : i <= j

\* serializeError, custom serializer branch
SerializeCustom(h, error, o, sid) ==
    LET customResult == RunSerializer(sid, error)
    IN  IF customResult = Raised THEN Raised
        ELSE [code    |-> IF Truthy(GetProp(customResult, K.code))
                          THEN GetProp(customResult, K.code).v
                          ELSE "CUSTOM_ERROR",
              message |-> IF Truthy(GetProp(customResult, K.message))
                          THEN GetProp(customResult, K.message).v
                          ELSE error.message,
              details |-> IF o.maskSensitiveData
                          THEN maskSensitiveFields(h, customResult,
                                                   o.sensitiveFields, 0)
                          ELSE customResult,
              fields  |-> Absent,
              stack   |-> Absent]

\* Object.keys(details).length
KeyCount(h, details) == Len(ObjectEntries(h, details))

\* serializeError, ApiError branch
SerializeApiError(h, error, o) ==
    LET serialized == serialize(error, o.includeStack)
        details ==
            IF Truthy(serialized.details) /\ serialized.details # Absent
               /\ o.maskSensitiveData
            THEN maskSensitiveFields(h,
                     safeSerializeDetails(h, serialized.details, {}, 0).out,
                     o.sensitiveFields, 0)
            ELSE serialized.details
    IN  [code    |-> serialized.code,
         message |-> serialized.message,
         details |-> IF details # Absent /\ Truthy(details)
                        /\ KeyCount(h, details) > 0
                     THEN details ELSE Absent,
         fields  |-> serialized.fields,
         stack   |-> IF o.includeStack /\ serialized.stack # Absent
                     THEN serialized.stack ELSE Absent]

\* serializeError, standard Error branch
SerializeStandard(error, o) ==
    [code    |-> "INTERNAL_ERROR",
     message |-> IF error.message # "" THEN error.message
                 ELSE "An unexpected error occurred",
     details |-> Absent,
     fields  |-> Absent,
     stack   |-> IF o.includeStack /\ Truthy(error.stack)
                 THEN error.stack ELSE Absent]

\* serializeError(error, options), options already merged over defaultOptions
serializeError(h, error, o) ==
    IF MatchingSerializers(error, o.customSerializers) # {}
    THEN SerializeCustom(h, error, o,
             o.customSerializers[
                 FirstIndex(MatchingSerializers(error, o.customSerializers))][2])
    ELSE IF InstanceOf(error, "ApiError")
    THEN SerializeApiError(h, error, o)
    ELSE SerializeStandard(error, o)

-----------------------------------------------------------------------------
(* utils/statusCodeMapper                                                  *)

\* faulty variant of defaultErrorMappings: the table also lists a class that
\* does not extend ApiError
defaultErrorMappings_WithTypeError ==
    << <<"TypeError", 400>>, <<"ValidationError", 400>>,
       <<"BadRequestError", 400>>, <<"UnauthorizedError", 401>>,
       <<"ForbiddenError", 403>>, <<"NotFoundError", 404>>,
       <<"ConflictError", 409>>, <<"UnprocessableEntityError", 422>>,
       <<"RateLimitError", 429>>, <<"InternalServerError", 500>>,
       <<"ServiceUnavailableError", 503>> >>

\* const defaultErrorMappings, in Map insertion order
defaultErrorMappings ==
    << <<"ValidationError", 400>>, <<"BadRequestError", 400>>,
       <<"UnauthorizedError", 401>>, <<"ForbiddenError", 403>>,
       <<"NotFoundError", 404>>, <<"ConflictError", 409>>,
       <<"UnprocessableEntityError", 422>>, <<"RateLimitError", 429>>,
       <<"InternalServerError", 500>>, <<"ServiceUnavailableError", 503>> >>

\* HTTP method names
M ==
    [GET     |-> <<"G","E","T">>,
     POST    |-> <<"P","O","S","T">>,
     PUT     |-> <<"P","U","T">>,
     PATCH   |-> <<"P","A","T","C","H">>,
     DELETE  |-> <<"D","E","L","E","T","E">>,
     HEAD    |-> <<"H","E","A","D">>,
     OPTIONS |-> <<"O","P","T","I","O","N","S">>,
     TRACE   |-> <<"T","R","A","C","E">>,
     CUSTOM  |-> <<"C","U","S","T","O","M">>]

\* const methodStatusCodes, an object literal: own properties
methodStatusCodes ==
    << <<M.GET, 200>>, <<M.POST, 201>>, <<M.PUT, 200>>, <<M.PATCH, 200>>,
       <<M.DELETE, 204>>, <<M.HEAD, 200>>, <<M.OPTIONS, 200>> >>

\* property names every object literal inherits from Object.prototype
InheritedKeys == {K.constructor, K.proto}

\* methodStatusCodes[key]: 0 stands for undefined, -1 for an inherited
\* member of Object.prototype (a truthy value that is not a status)
MethodStatusLookup(key) ==
    IF \E i \in 1..Len(methodStatusCodes) : methodStatusCodes[i][1] = key
    THEN methodStatusCodes[CHOOSE i \in 1..Len(methodStatusCodes) :
                               methodStatusCodes[i][1] = key][2]
    ELSE IF key \in InheritedKeys THEN -1
    ELSE 0

\* faulty variant of the lookup: the constructor is compared, so an instance
\* of a subclass does not match its superclass's entry
MatchingMappings_ExactClass(error, mappings) ==
    {i \in 1..Len(mappings) : error.cls = mappings[i][1]}

\* for (const [ErrorClass, statusCode] of mappings)
\*     if (error instanceof ErrorClass) return statusCode
\* the indexes of the entries the error is an instance of
MatchingMappings(error, mappings) ==
    {i \in 1..Len(mappings) : InstanceOf(error, mappings[i][1])}

\* faulty variant of getStatusCode: the custom mappings are consulted before
\* the error's own statusCode
getStatusCode_MappingsFirst(mappings, error) ==
    IF MatchingMappings(error, mappings) # {}
    THEN mappings[FirstIndex(MatchingMappings(error, mappings))][2]
    ELSE IF InstanceOf(error, "ApiError") THEN error.statusCode
    ELSE 500

\* StatusCodeMapper.getStatusCode(error)
getStatusCode(mappings, error) ==
    IF InstanceOf(error, "ApiError") THEN error.statusCode
    ELSE IF MatchingMappings(error, mappings) # {}
    THEN mappings[FirstIndex(MatchingMappings(error, mappings))][2]
    ELSE IF MatchingMappings(error, defaultErrorMappings) # {}
    THEN defaultErrorMappings[
             FirstIndex(MatchingMappings(error, defaultErrorMappings))][2]
    ELSE 500

\* faulty variant of getSuccessStatusCode: the method name is looked up as
\* written, without toUpperCase
getSuccessStatusCode_CaseSensitive(method, hasData) ==
    IF method = M.DELETE /\ ~hasData THEN 204
    ELSE IF MethodStatusLookup(method) # 0
    THEN MethodStatusLookup(method)
    ELSE 200

\* StatusCodeMapper.getSuccessStatusCode(method, hasData)
getSuccessStatusCode(method, hasData) ==
    LET upperMethod == toUpperCase(method)
    IN  IF upperMethod = M.DELETE /\ ~hasData THEN 204
        ELSE IF MethodStatusLookup(upperMethod) # 0
        THEN MethodStatusLookup(upperMethod)
        ELSE 200

\* Map.prototype.set: an existing key keeps its position, a new one is last
MapSet(mappings, ErrorClass, statusCode) ==
    IF \E i \in 1..Len(mappings) : mappings[i][1] = ErrorClass
    THEN [i \in 1..Len(mappings) |->
             IF mappings[i][1] = ErrorClass
             THEN <<ErrorClass, statusCode>> ELSE mappings[i]]
    ELSE Append(mappings, <<ErrorClass, statusCode>>)

\* Map.prototype.delete
MapDelete(mappings, ErrorClass) ==
    SelectSeq(mappings, LAMBDA e : e[1] # ErrorClass)

\* Map.prototype.has
MapHas(mappings, ErrorClass) ==
    \E i \in 1..Len(mappings) : mappings[i][1] = ErrorClass

-----------------------------------------------------------------------------
(* core/ResponseFormatter: configuration and formatError                   *)

Environments == {"development", "staging", "production", "test"}

\* an optional Map of the configuration: left out, or given with its entries
NoMap == [present |-> FALSE, entries |-> <<>>]
SomeMap(entries) == [present |-> TRUE, entries |-> entries]

\* const defaultConfig; an optional field that is not set is <<>> for
\* customSerializers, "none" for customFormatter, NoMap for customErrorMappers
defaultConfig ==
    [includeStackTraces |-> FALSE,
     environment        |-> "production",
     customSerializers  |-> <<>>,
     customErrorMappers |-> NoMap,
     includeTimestamp   |-> TRUE,
     maskSensitiveData  |-> TRUE,
     requestIdHeader    |-> "x-request-id",
     correlationIdHeader |-> "x-correlation-id",
     generateRequestId  |-> TRUE,
     preResponseHooks   |-> <<>>,
     postResponseHooks  |-> <<>>,
     customFormatter    |-> "none",
     passthroughMode    |-> FALSE,
     pagination         |-> [defaultLimit |-> [k |-> "fin", n |-> 10, d |-> 1],
                             maxLimit     |-> [k |-> "fin", n |-> 100, d |-> 1],
                             includeLinks |-> FALSE],
     sensitiveFields    |-> <<K.password, K.token, K.secret, K.apiKey,
                              K.authorization>>]

\* ResponseFormatter.mergeConfig: { ...defaultConfig, ...input, ... }
mergeConfig(input) ==
    [k \in DOMAIN defaultConfig |->
        CASE k \notin DOMAIN input -> defaultConfig[k]
          [] k \in DOMAIN input /\ k = "pagination" ->
                [f \in DOMAIN defaultConfig.pagination \cup DOMAIN input.pagination |->
                    IF f \in DOMAIN input.pagination THEN input.pagination[f]
                    ELSE defaultConfig.pagination[f]]
          [] OTHER -> input[k]]

\* ResponseFormatter.getTimestamp; the clock reading is one fixed instant
getTimestamp(cfg) ==
    IF cfg.includeTimestamp THEN "2024-01-01T00:00:00.000Z" ELSE ""

\* { ...obj, [key]: value } on the entries of an object
SetKey(ents, key, value) ==
    IF \E i \in 1..Len(ents) : ents[i][1] = key
    THEN [i \in 1..Len(ents) |-> IF ents[i][1] = key THEN <<key, value>> ELSE ents[i]]
    ELSE Append(ents, <<key, value>>)

\* the entries that { ...v } copies out of a freshly built value
Spread(v) ==
    CASE v.t = "obj" -> v.ents
      [] v.t = "arr" -> IndexedEntries(v.items)
      [] OTHER       -> <<>>

RECURSIVE SpreadOver(_, _)
\* { ...target, ...source } on the entries of two objects
SpreadOver(target, source) ==
    IF source = <<>> THEN target
    ELSE SpreadOver(SetKey(target, Head(source)[1], Head(source)[2]), Tail(source))

\* one invocation of a user function as the function saw it
Invocation(kind, hook, arg) == [kind |-> kind, hook |-> hook, arg |-> arg]

\* the user-supplied PostResponseHook functions the model draws from
\*   "processed" : r => ({...r, meta: {...r.meta, processed: true}})
\*   "serverTime": r => ({...r, meta: {...r.meta, serverTime: Date.now()}})
\*   "raise"     : r => { throw ... }
RunPostHook(hook, response) ==
    CASE hook = "raise" -> Raised
      [] hook = "serverTime" ->
            [response EXCEPT !.meta =
                Obj(SetKey(Spread(response.meta), K.serverTime, Num("1704067200000")))]
      [] OTHER ->
            [response EXCEPT !.meta =
                Obj(SetKey(Spread(response.meta), K.processed, True))]

\* the user-supplied CustomFormatter functions the model draws from
\*   "spread": r => ({...r, customError: true})
\*   "raise" : r => { throw ... }
RunFormatter(formatter, response) ==
    IF formatter = "raise" THEN Raised
    ELSE [response EXCEPT !.custom = True]

RECURSIVE applyPostHooks_SkipFirst(_, _, _)
\* faulty variant of applyPostHooks: the first registered hook is left out
applyPostHooks_SkipFirst(hooks, response, lg) ==
    IF Len(hooks) <= 1 \/ response = Raised THEN [out |-> response, log |-> lg]
    ELSE applyPostHooks_SkipFirst(Tail(hooks), RunPostHook(hooks[2], response),
                         Append(lg, Invocation("post", hooks[2], response)))

RECURSIVE applyPostHooks(_, _, _)
\* ResponseFormatter.applyPostHooks: the hooks in order, each on the result
\* of the one before; an exception leaves the loop; lg collects the
\* invocations
applyPostHooks(hooks, response, lg) ==
    IF hooks = <<>> \/ response = Raised THEN [out |-> response, log |-> lg]
    ELSE applyPostHooks(Tail(hooks), RunPostHook(Head(hooks), response),
                        Append(lg, Invocation("post", Head(hooks), response)))

\* faulty variant of Finish: the post hooks are taken off the formatter's
\* list as they run
Finish_ConsumesHooks(cfg, response, lg) ==
    LET r == applyPostHooks(cfg.postResponseHooks, response, lg)
    IN  [cfg |-> [cfg EXCEPT !.postResponseHooks = <<>>], out |-> r.out, log |-> r.log]

\* the end of formatSuccess and formatError: the custom formatter in
\* passthrough mode, the post hooks otherwise; the formatter's configuration
\* comes back as the call leaves it
Finish(cfg, response, lg) ==
    IF cfg.passthroughMode /\ cfg.customFormatter # "none"
    THEN [cfg |-> cfg,
          out |-> RunFormatter(cfg.customFormatter, response),
          log |-> Append(lg, Invocation("formatter", cfg.customFormatter, response))]
    ELSE LET r == applyPostHooks(cfg.postResponseHooks, response, lg)
         IN  [cfg |-> cfg, out |-> r.out, log |-> r.log]

\* faulty variant of includeStack: every environment but production counts
IncludeStack_NonProduction(cfg) ==
    cfg.includeStackTraces \/ cfg.environment # "production"

\* const includeStack = includeStackTraces || environment === 'development'
IncludeStack(cfg) ==
    cfg.includeStackTraces \/ cfg.environment = "development"

\* ResponseFormatter.formatError(error, meta): what it returns, the
\* invocations it made and the configuration it leaves
formatError(h, error, m, cfg) ==
    LET errorDetails ==
            serializeError(h, error,
                [includeStack      |-> IncludeStack(cfg),
                 maskSensitiveData |-> cfg.maskSensitiveData,
                 sensitiveFields   |-> cfg.sensitiveFields,
                 customSerializers |-> cfg.customSerializers])
        response ==
            [success   |-> FALSE,
             error     |-> errorDetails,
             timestamp |-> getTimestamp(cfg),
             meta      |-> IF m # Absent /\ Len(m.ents) > 0 THEN m ELSE Absent,
             custom    |-> Absent]
    IN  IF errorDetails = Raised THEN [cfg |-> cfg, out |-> Raised, log |-> <<>>]
        ELSE Finish(cfg, response, <<>>)

-----------------------------------------------------------------------------
(* Inputs of the serializer: error details as a heap of objects            *)

\* deepest chain of wrapper objects put above the innermost object
MaxNest == 12
\* longest array placed in the details
MaxArrayLen == 101

NestLevels == {0, 1, 2} \cup ((DepthLimit - 1)..MaxNest)
ArrayLens  == {0, 2} \cup ((ArrayLimit - 1)..MaxArrayLen)

\* how a wrapper object holds the next level: under a key, as the element of
\* an array, or as the element of an array inside an array
Vias == {"key", "arr", "arrarr"}

Cores ==
    {"plain", "pollute", "selfref", "rootref", "arrcycle", "arrself",
     "shared", "arrobj", "bigarr", "arrarr", "cause", "nulls", "empty"}

CoreId  == <<"core", 0>>
ChildId == <<"child", 0>>
ListId  == <<"list", 0>>
InnerId == <<"inner", 0>>
CauseId == <<"cause", 0>>

RootId(nest) == IF nest = 0 THEN CoreId ELSE <<"w", 1>>

HeapIds(nest) ==
    {CoreId, ChildId, ListId, InnerId, CauseId}
        \cup {<<k, i>> : k \in {"w", "wa", "wb"}, i \in 1..nest}

ObjNode(ents)  == [kind |-> "obj", ents |-> ents]
ArrNode(items) == [kind |-> "arr", items |-> items]
\* an Error instance: name and message are not enumerable own properties
ErrNode(name, message) ==
    [kind |-> "err", ents |-> <<>>, name |-> Str(name), message |-> Str(message)]

Prims(len) == [i \in 1..len |-> Num("1")]

CoreNode(core, nest) ==
    CASE core = "plain"    -> ObjNode(<< <<K.password, Str("hunter2")>>,
                                         <<K.Password, Str("Hunter2")>>,
                                         <<K.TOKEN, Str("jwt")>>,
                                         <<K.id, Num("7")>>,
                                         <<K.user, Ref(ChildId)>> >>)
      [] core = "pollute"  -> ObjNode(<< <<K.proto, Ref(ChildId)>>,
                                         <<K.constructor, Str("evil")>>,
                                         <<K.id, Num("7")>>,
                                         <<K.user, Ref(ChildId)>> >>)
      [] core = "selfref"  -> ObjNode(<< <<K.name, Str("test")>>,
                                         <<K.self, Ref(CoreId)>> >>)
      [] core = "rootref"  -> ObjNode(<< <<K.name, Str("test")>>,
                                         <<K.self, Ref(RootId(nest))>> >>)
      [] core = "arrcycle" -> ObjNode(<< <<K.items, Ref(ListId)>> >>)
      [] core = "arrself"  -> ObjNode(<< <<K.items, Ref(ListId)>> >>)
      [] core = "shared"   -> ObjNode(<< <<K.a, Ref(ChildId)>>,
                                         <<K.b, Ref(ChildId)>> >>)
      [] core = "arrobj"   -> ObjNode(<< <<K.items, Ref(ListId)>>,
                                         <<K.id, Num("7")>> >>)
      [] core = "bigarr"   -> ObjNode(<< <<K.items, Ref(ListId)>> >>)
      [] core = "arrarr"   -> ObjNode(<< <<K.items, Ref(ListId)>> >>)
      [] core = "cause"    -> ObjNode(<< <<K.a, Ref(CauseId)>>,
                                         <<K.id, Num("7")>> >>)
      [] core = "nulls"    -> ObjNode(<< <<K.a, Null>>, <<K.b, Undef>>,
                                         <<K.password, Null>> >>)
      [] core = "empty"    -> ObjNode(<<>>)

ChildNode(core) ==
    IF core = "pollute"
    THEN ObjNode(<< <<K.prototype, Str("evil")>>, <<K.proto, Str("bad")>>,
                    <<K.name, Str("good")>> >>)
    ELSE ObjNode(<< <<K.name, Str("john")>>, <<K.password, Str("hunter2")>>,
                    <<K.apiKey, Str("sk-1")>>, <<K.constructor, Str("evil")>> >>)

ListNode(core, len) ==
    CASE core = "arrcycle" -> ArrNode(<<Ref(CoreId), Str("x")>>)
      [] core = "arrself"  -> ArrNode(<<Ref(ListId)>>)
      [] core = "arrobj"   -> ArrNode(<<Ref(ChildId), Str("x")>>)
      [] core = "arrarr"   -> ArrNode(<<Ref(InnerId)>>)
      [] OTHER             -> ArrNode(Prims(len))

WrapperNode(kind, i, nest, via) ==
    LET next == IF i < nest THEN <<"w", i + 1>> ELSE CoreId
    IN  CASE kind = "w" /\ via = "key" ->
                 ObjNode(<< <<K.n, Ref(next)>> >>)
          [] kind = "w" /\ via # "key" ->
                 ObjNode(<< <<K.items, Ref(<<"wa", i>>)>> >>)
          [] kind = "wa" /\ via = "arrarr" -> ArrNode(<<Ref(<<"wb", i>>)>>)
          [] kind = "wa" /\ via # "arrarr" -> ArrNode(<<Ref(next)>>)
          [] kind = "wb" -> ArrNode(<<Ref(next)>>)

\* the heap of one details structure
DetailsHeap(nest, via, core, len) ==
    [id \in HeapIds(nest) |->
        CASE id = CoreId  -> CoreNode(core, nest)
          [] id = ChildId -> ChildNode(core)
          [] id = ListId  -> ListNode(core, len)
          [] id = InnerId -> ArrNode(Prims(len))
          [] id = CauseId -> ErrNode("TypeError", "boom")
          [] OTHER        -> WrapperNode(id[1], id[2], nest, via)]

EmptyHeap == DetailsHeap(0, "key", "empty", 0)

\* options passed to serializeError, merged over defaultOptions:
\* const opts = { ...defaultOptions, ...options }
MergeOptions(options) ==
    [k \in DOMAIN defaultOptions |->
        IF k \in DOMAIN options THEN options[k] ELSE defaultOptions[k]]

SensitiveLists ==
    {<<>>, <<K.password>>, <<K.Password, K.token>>, <<K.apiKey, K.name>>}

SerializerTables ==
    {<<>>,
     << <<"CustomError", "fields">> >>,
     << <<"ApiError", "fields">> >>,
     << <<"ValidationError", "raise">>, <<"ApiError", "bare">> >>}

NoOptions == [x \in {} |-> TRUE]

PartialOptions ==
    {NoOptions}
        \cup {[maskSensitiveData |-> m, sensitiveFields |-> sf] :
                 m \in BOOLEAN, sf \in SensitiveLists}
        \cup {[includeStack |-> st, maskSensitiveData |-> m,
               customSerializers |-> cs] :
                 st \in BOOLEAN, m \in BOOLEAN, cs \in SerializerTables}

Stacks == {Str("Error: at handler (app.js:1:1)"), Undef}

NoCall == [op |-> "none"]

\* no request is being served and no middleware has been created
NoRequest    == [path |-> "none"]
NoResponse   == [sent |-> <<>>]
NoMiddleware == [kind |-> "none"]

\* the state after an error has been thrown and before it is serialized
InitSer ==
    /\ \E nest \in NestLevels, via \in Vias, core \in Cores, len \in ArrayLens,
          cls \in {"ApiError", "ValidationError", "CustomError"}, stk \in Stacks :
          /\ core \in {"bigarr", "arrarr"} \/ len = 0
          /\ nest > 0 \/ via = "key"
          /\ cls = "ApiError" \/ (nest = 0 /\ core \in {"plain", "empty"})
          /\ heap = DetailsHeap(nest, via, core, len)
          /\ err = CASE cls = "ApiError" ->
                          ApiError(cls, "Test", "TEST", SomeNumber(400),
                                   Ref(RootId(nest)), Undef, stk)
                     [] cls = "ValidationError" ->
                          PredefinedError(cls, "Validation failed",
                                   Ref(RootId(nest)), Undef, stk)
                     [] OTHER ->
                          StandardError(cls, "Standard error", stk)
    /\ opts \in {MergeOptions(o) : o \in PartialOptions}
    /\ result = Absent
    /\ pc = "ready"
    /\ config = defaultConfig
    /\ meta = Absent
    /\ customMappings = <<>>
    /\ call = NoCall
    /\ log = <<>>
    /\ req = NoRequest
    /\ res = NoResponse
    /\ mw = NoMiddleware

\* serializeError(error, options)
SerializeErrorCall ==
    /\ pc = "ready"
    /\ result' = serializeError(heap, err, opts)
    /\ pc' = "done"
    /\ UNCHANGED <<heap, err, opts, config, meta, customMappings, call, log, req, res, mw>>

NextSer == SerializeErrorCall

SpecSer == InitSer /\ [][NextSer]_vars

-----------------------------------------------------------------------------
(* Reading a returned structure: every value nested in it, at any level    *)

\* the values held by an object or an array
Children(h, v) ==
    IF IsObject(v)
    THEN {ObjectEntries(h, v)[i][2] : i \in 1..Len(ObjectEntries(h, v))}
    ELSE {}

\* the values one level of the code's depth count below v: the elements of
\* an array held under a key of an object are at the level of the array
LevelChildren(h, v) ==
    UNION {IF IsObject(c) /\ IsArray(h, c) /\ ~IsArray(h, v)
           THEN Children(h, c) ELSE {c} : c \in Children(h, v)}

\* o[key] on any object value
PropOf(h, o, key) ==
    LET ents == ObjectEntries(h, o)
    IN  IF \E i \in 1..Len(ents) : ents[i][1] = key
        THEN ents[CHOOSE i \in 1..Len(ents) : ents[i][1] = key][2]
        ELSE Absent

IsMarker(v) == v \in {TruncatedMarker, CircularMarker}

\* for a pair <<input value, output value>>: the pairs of values found under
\* the same key of both, for the keys that are neither listed nor stripped
PairChildren(h, p) ==
    IF IsObject(p[1]) /\ IsObject(p[2]) /\ ~IsMarker(p[2])
          /\ ~IsErrorValue(h, p[1])
    THEN LET ents == ObjectEntries(h, p[1])
         IN  {<<ents[i][2], PropOf(h, p[2], ents[i][1])>> :
                 i \in {j \in 1..Len(ents) :
                           /\ ~IsPollutionKey(ents[j][1])
                           /\ ~IsSensitiveKey(ents[j][1], opts.sensitiveFields)
                           /\ PropOf(h, p[2], ents[j][1]) # Absent}}
    ELSE {}

\* the values under the keys of a freshly built object that are not listed
PlainChildren(v) ==
    IF v.t = "obj"
    THEN {v.ents[i][2] :
             i \in {j \in 1..Len(v.ents) :
                       ~IsSensitiveKey(v.ents[j][1], opts.sensitiveFields)}}
    ELSE {}

\* one step down from every member of S
Step(h, S, mode) ==
    UNION {CASE mode = "level" -> LevelChildren(h, x)
             [] mode = "pair"  -> PairChildren(h, x)
             [] mode = "plain" -> PlainChildren(x)
             [] OTHER          -> Children(h, x) : x \in S}

RECURSIVE Descend(_, _, _, _)
\* what is found exactly k steps below the members of S
Descend(h, S, k, mode) ==
    IF k = 0 \/ S = {} THEN S
    ELSE IF k = 1 THEN Step(h, S, mode)
    ELSE Descend(h, Descend(h, S, k \div 2, mode), k - k \div 2, mode)

RECURSIVE Sweep(_, _, _, _)
\* k steps down from st.front, one member at a time and each member once:
\* st.all collects what has been found, st.front is what was found last
Sweep(h, st, k, mode) ==
    IF k = 0 \/ st.front = {} THEN st
    ELSE IF k = 1
    THEN [all   |-> st.all \cup Step(h, st.front, mode),
          front |-> Step(h, st.front, mode) \ st.all]
    ELSE Sweep(h, Sweep(h, st, k \div 2, mode), k - k \div 2, mode)

\* the members of S and what is found at most k steps below them
Closure(h, S, k, mode) == Sweep(h, [all |-> S, front |-> S], k, mode).all

\* no path without a repeated object is longer than this: the objects of the
\* heap, and the objects and arrays a serializer builds down to its depth limit
PathBound(h) == Cardinality(DOMAIN h) + 2 * (DepthLimit + 2)

\* v and every value nested in v
SubValues(h, v) == Closure(h, {v}, PathBound(h), "key")

\* the objects (not arrays) nested in v, v included
ObjectsIn(h, v) == {x \in SubValues(h, v) : IsObject(x) /\ ~IsArray(h, x)}

\* some object of v is reachable from itself through keys or array elements:
\* there is a path longer than any path without a repeated object
HasCycle(h, v) ==
    \E x \in Descend(h, {v}, PathBound(h), "key") : IsObject(x)

\* the call returned normally and took the ApiError branch
ApiBranchDone ==
    /\ pc = "done"
    /\ result # Raised
    /\ InstanceOf(err, "ApiError")
    /\ MatchingSerializers(err, opts.customSerializers) = {}

HasDetails == pc = "done" /\ result # Raised /\ result.details # Absent

-----------------------------------------------------------------------------
(* C1: with maskSensitiveData enabled, every key of the returned details   *)
(* whose lowercase form equals the lowercase form of a listed name holds   *)
(* exactly "[REDACTED]", at every nesting level, including keys of objects *)
(* that are elements of arrays, and every non-matching sibling key keeps   *)
(* its value.                                                              *)

\* every primitive of the input under a key that is neither listed nor
\* stripped is found unchanged at the same place of the output
SiblingsKept(h, in, out) ==
    \A p \in Closure(h, {<<in, out>>}, PathBound(h), "pair") :
        IsObject(p[1]) \/ p[2] = p[1]

AllSensitiveRedacted(h, v, sensitiveFields) ==
    \A o \in ObjectsIn(h, v) :
        \A i \in 1..Len(ObjectEntries(h, o)) :
            IsSensitiveKey(ObjectEntries(h, o)[i][1], sensitiveFields)
                => ObjectEntries(h, o)[i][2] = Redacted

C1_MaskedEverywhere ==
    (ApiBranchDone /\ opts.maskSensitiveData /\ result.details # Absent)
        => /\ AllSensitiveRedacted(heap, result.details, opts.sensitiveFields)
           /\ SiblingsKept(heap, err.details, result.details)

\* what maskSensitiveFields does achieve: the keys of objects that are not
\* elements of arrays are redacted
RedactedOutsideArrays(v, sensitiveFields) ==
    \A x \in Closure(heap, {v}, PathBound(heap), "plain") :
        x.t = "obj"
            => \A i \in 1..Len(x.ents) :
                   IsSensitiveKey(x.ents[i][1], sensitiveFields)
                       => x.ents[i][2] = Redacted

\* with masking enabled, listed keys outside arrays are redacted and the
\* siblings keep their values
C1_HoldsOutsideArrays ==
    (ApiBranchDone /\ opts.maskSensitiveData /\ result.details # Absent)
        => /\ RedactedOutsideArrays(result.details, opts.sensitiveFields)
           /\ SiblingsKept(heap, err.details, result.details)

-----------------------------------------------------------------------------
(* C2: for every ApiError whose details contain a reference cycle and for  *)
(* every serialization policy (masking enabled or disabled),               *)
(* serializeError returns details that are finite and acyclic, with        *)
(* {_circular: true} in place of the revisited object.                     *)

CyclicInput == Truthy(err.details) /\ HasCycle(heap, err.details)

C2_CyclesCut ==
    (ApiBranchDone /\ CyclicInput)
        => /\ result.details # Absent
           /\ ~HasCycle(heap, result.details)
           /\ \/ CircularMarker \in SubValues(heap, result.details)
              \/ TruncatedMarker \in SubValues(heap, result.details)

\* with masking enabled every cycle is cut
C2_HoldsWhenMasking ==
    (ApiBranchDone /\ CyclicInput /\ opts.maskSensitiveData) => C2_CyclesCut

-----------------------------------------------------------------------------
(* C3: for every error and every serialization policy (masking enabled or  *)
(* disabled, with or without a custom serializer), no key named __proto__, *)
(* constructor or prototype appears at any level of the returned details,  *)
(* while the other keys of the same objects are kept.                      *)

NoPollutionKeys(h, v) ==
    \A o \in ObjectsIn(h, v) :
        \A i \in 1..Len(ObjectEntries(h, o)) :
            ~IsPollutionKey(ObjectEntries(h, o)[i][1])

\* every other key of the details root is a key of the returned root
OtherKeysKept(h, in, out) ==
    \A i \in 1..Len(ObjectEntries(h, in)) :
        \/ IsPollutionKey(ObjectEntries(h, in)[i][1])
        \/ PropOf(h, out, ObjectEntries(h, in)[i][1]) # Absent

C3_NoPollutionKeys ==
    HasDetails
        => /\ NoPollutionKeys(heap, result.details)
           /\ ApiBranchDone
                  => OtherKeysKept(heap, err.details, result.details)

\* with masking enabled and no custom serializer the three keys are stripped
C3_HoldsWhenMasking ==
    (ApiBranchDone /\ opts.maskSensitiveData) => C3_NoPollutionKeys

-----------------------------------------------------------------------------
(* C4: for every details structure that nests objects more than 10 levels  *)
(* below the details root, the output holds {_truncated: true} in place of *)
(* each object beyond that depth, so the nesting depth of the output is    *)
(* bounded by a constant that does not depend on the input.                *)

\* every object found more than DepthLimit levels below v is the marker
TruncatedBeyond(h, v) ==
    \A x \in Descend(h, {v}, DepthLimit + 1, "level") :
        IsObject(x) => x = TruncatedMarker

\* no object or array is found n steps below v
NestingAtMost(h, v, n) ==
    \A x \in Descend(h, {v}, n, "key") : ~IsObject(x)

\* objects at levels 0..DepthLimit, an array around each, and the marker
OutputNestingBound == 2 * (DepthLimit + 1) + 1

C4_DepthBounded ==
    (ApiBranchDone /\ result.details # Absent)
        => /\ TruncatedBeyond(heap, result.details)
           /\ NestingAtMost(heap, result.details, OutputNestingBound)

-----------------------------------------------------------------------------
(* C5: for every array anywhere in an ApiError's details (directly under a *)
(* key, inside nested objects, or as an element of another array), the     *)
(* collection that represents it in the output has at most 100 elements.   *)

\* no collection of the output, array or object, has more than ArrayLimit
\* members (no object of the inputs has that many keys of its own)
CollectionsBounded(h, v) ==
    \A x \in SubValues(h, v) :
        IsObject(x) => Len(ObjectEntries(h, x)) <= ArrayLimit

C5_ArraysCapped ==
    (ApiBranchDone /\ result.details # Absent)
        => CollectionsBounded(heap, result.details)

ArraysBounded(h, v) ==
    \A x \in SubValues(h, v) :
        (IsObject(x) /\ IsArray(h, x)) => Len(ArrayItems(h, x)) <= ArrayLimit

\* with masking enabled no array of the output has more than ArrayLimit
\* elements
C5_HoldsForArraysWhenMasking ==
    (ApiBranchDone /\ opts.maskSensitiveData /\ result.details # Absent)
        => ArraysBounded(heap, result.details)

-----------------------------------------------------------------------------
(* formatError on a configured formatter                                   *)

HookLists == {<<>>, <<"processed">>, <<"processed", "raise">>}

FormatterChoices ==
    {[passthroughMode |-> FALSE, customFormatter |-> "none"],
     [passthroughMode |-> FALSE, customFormatter |-> "spread"],
     [passthroughMode |-> TRUE,  customFormatter |-> "spread"],
     [passthroughMode |-> TRUE,  customFormatter |-> "raise"]}

FormatterInputs ==
    {[includeStackTraces |-> st, environment |-> env,
      maskSensitiveData |-> m, customSerializers |-> cs,
      postResponseHooks |-> hooks,
      passthroughMode |-> f.passthroughMode,
      customFormatter |-> f.customFormatter] :
        st \in BOOLEAN, env \in Environments, m \in BOOLEAN,
        cs \in SerializerTables, hooks \in HookLists, f \in FormatterChoices}

Metas == {Absent, Obj(<<>>), Obj(<< <<K.requestId, Str("req-1")>> >>)}

\* a formatter has been constructed and an error has reached it
InitFmt ==
    /\ \E core \in {"plain", "selfref", "empty"},
          cls \in {"ApiError", "ValidationError", "Error", "CustomError"},
          stk \in Stacks :
          /\ cls = "ApiError" \/ core = "plain"
          /\ heap = DetailsHeap(0, "key", core, 0)
          /\ err = CASE cls = "ApiError" ->
                          ApiError(cls, "Test", "TEST", SomeNumber(400),
                                   Ref(CoreId), Undef, stk)
                     [] cls = "ValidationError" ->
                          PredefinedError(cls, "Validation failed",
                                   Ref(CoreId), Undef, stk)
                     [] OTHER ->
                          StandardError(cls, "Standard error", stk)
    /\ config \in {mergeConfig(i) : i \in FormatterInputs}
    /\ meta \in Metas
    /\ opts = defaultOptions
    /\ result = Absent
    /\ pc = "ready"
    /\ customMappings = <<>>
    /\ call = NoCall
    /\ log = <<>>
    /\ req = NoRequest
    /\ res = NoResponse
    /\ mw = NoMiddleware

\* formatter.formatError(error, meta)
FormatErrorCall ==
    /\ pc = "ready"
    /\ \E r \in {formatError(heap, err, meta, config)} :
           /\ result' = r.out
           /\ log' = r.log
           /\ config' = r.cfg
    /\ pc' = "done"
    /\ UNCHANGED <<heap, err, opts, meta, customMappings, call, req, res, mw>>

NextFmt == FormatErrorCall

SpecFmt == InitFmt /\ [][NextFmt]_vars

-----------------------------------------------------------------------------
(* C6: formatError returns a well-formed error envelope for every error    *)
(* and every formatter configuration: when a step of formatting fails the  *)
(* result is the generic envelope with code INTERNAL_ERROR and no          *)
(* exception propagates to the caller.                                     *)

\* some step of this call raises
StepFails ==
    \/ /\ MatchingSerializers(err, config.customSerializers) # {}
       /\ config.customSerializers[FirstIndex(
              MatchingSerializers(err, config.customSerializers))][2] = "raise"
    \/ /\ config.passthroughMode
       /\ config.customFormatter = "raise"
    \/ /\ ~(config.passthroughMode /\ config.customFormatter # "none")
       /\ \E i \in 1..Len(config.postResponseHooks) :
              config.postResponseHooks[i] = "raise"

C6_FormatErrorNeverThrows ==
    pc = "done"
        => /\ result # Raised
           /\ result.success = FALSE
           /\ StepFails => result.error.code = "INTERNAL_ERROR"

-----------------------------------------------------------------------------
(* C10: an envelope produced by formatError contains error.stack only when *)
(* stack traces were enabled through includeStackTraces or the environment *)
(* is 'development'; otherwise no stack appears, for every error type.     *)

EnvelopeHasStack ==
    pc = "done" /\ result # Raised /\ result.error.stack # Absent

C10_StackOnlyWhenEnabledOrDevelopment ==
    EnvelopeHasStack
        => (config.includeStackTraces \/ config.environment = "development")

\* the statement as first made: only the includeStackTraces setting counts
C10_StackOnlyWhenEnabled ==
    EnvelopeHasStack => config.includeStackTraces

\* a stack sent although includeStackTraces is off
C10_Witness == EnvelopeHasStack /\ ~config.includeStackTraces

-----------------------------------------------------------------------------
(* A StatusCodeMapper in use                                               *)

\* classes registered in the custom table, and the statuses given to them
MappedClasses ==
    {"CustomError", "SubCustomError", "ValidationError", "RateLimitError"}
MappedStatuses == {418, 422}

\* statusCode options given to new ApiError(...)
StatusOptions == {NoNumber, SomeNumber(0), SomeNumber(418), SomeNumber(404)}

MapperErrors ==
    {ApiError(c, "Test", "TEST", st, Undef, Undef, Undef) :
         c \in {"ApiError", "BusinessLogicError"}, st \in StatusOptions}
      \cup {PredefinedError(c, "Predefined", Undef, Undef, Undef) :
               c \in {"ValidationError", "NotFoundError", "RateLimitError"}}
      \cup {StandardError(c, "Standard error", Undef) :
               c \in {"Error", "TypeError", "CustomError", "SubCustomError"}}

\* every way of writing a word in upper and lower case letters
Casings(word) ==
    {[i \in 1..Len(word) |-> IF i \in S THEN LowerChar(word[i]) ELSE word[i]] :
        S \in SUBSET (1..Len(word))}

MethodWords ==
    {M.GET, M.POST, M.PUT, M.PATCH, M.DELETE, M.HEAD, M.OPTIONS,
     M.TRACE, M.CUSTOM}

MethodNames ==
    UNION {Casings(w) : w \in MethodWords} \cup {K.constructor, K.proto, <<>>}

\* new StatusCodeMapper(customMappings)
InitMap ==
    /\ customMappings \in {<<>>, << <<"CustomError", 422>> >>}
    /\ call = NoCall
    /\ log = <<>>
    /\ req = NoRequest
    /\ res = NoResponse
    /\ mw = NoMiddleware
    /\ result = 0
    /\ err = StandardError("Error", "unknown", Undef)
    /\ heap = EmptyHeap
    /\ opts = defaultOptions
    /\ config = defaultConfig
    /\ meta = Absent
    /\ pc = "ready"

\* mapper.addMapping(ErrorClass, statusCode)
AddMapping ==
    \E c \in MappedClasses, st \in MappedStatuses :
        /\ customMappings' = MapSet(customMappings, c, st)
        /\ call' = [op |-> "addMapping", cls |-> c, status |-> st]
        /\ result' = 0
        /\ UNCHANGED <<heap, err, opts, config, meta, pc, log, req, res, mw>>

\* mapper.removeMapping(ErrorClass)
RemoveMapping ==
    \E c \in MappedClasses :
        /\ customMappings' = MapDelete(customMappings, c)
        /\ call' = [op |-> "removeMapping", cls |-> c]
        /\ result' = IF MapHas(customMappings, c) THEN 1 ELSE 0
        /\ UNCHANGED <<heap, err, opts, config, meta, pc, log, req, res, mw>>

\* mapper.getStatusCode(error)
GetStatusCode ==
    \E e \in MapperErrors :
        /\ err' = e
        /\ call' = [op |-> "getStatusCode"]
        /\ result' = getStatusCode(customMappings, e)
        /\ UNCHANGED <<heap, opts, config, meta, pc, customMappings, log, req, res, mw>>

NextMap ==
    \/ AddMapping
    \/ RemoveMapping
    \/ GetStatusCode

SpecMap == InitMap /\ [][NextMap]_vars

\* a request method has been received and its handler has returned
InitMethod ==
    /\ \E m \in MethodNames, hasData \in BOOLEAN :
           call = [op |-> "getSuccessStatusCode", method |-> m,
                   hasData |-> hasData]
    /\ customMappings \in {<<>>, << <<"CustomError", 422>> >>}
    /\ result = 0
    /\ err = StandardError("Error", "unknown", Undef)
    /\ heap = EmptyHeap
    /\ opts = defaultOptions
    /\ config = defaultConfig
    /\ meta = Absent
    /\ pc = "ready"
    /\ log = <<>>
    /\ req = NoRequest
    /\ res = NoResponse
    /\ mw = NoMiddleware

\* mapper.getSuccessStatusCode(method, hasData)
GetSuccessStatusCode ==
    /\ pc = "ready"
    /\ call.op = "getSuccessStatusCode"
    /\ result' = getSuccessStatusCode(call.method, call.hasData)
    /\ pc' = "done"
    /\ UNCHANGED <<heap, err, opts, config, meta, customMappings, call, log, req, res, mw>>

NextMethod == GetSuccessStatusCode

SpecMethod == InitMethod /\ [][NextMethod]_vars

-----------------------------------------------------------------------------
(* C7: for every ApiError (base class or any subclass, whatever statusCode *)
(* it was constructed with) and every content of the custom mapping table, *)
(* getStatusCode returns the error's own statusCode, even when a custom or *)
(* built-in mapping for its class gives a different status.                *)

C7_ApiErrorStatusWins ==
    (call.op = "getStatusCode" /\ InstanceOf(err, "ApiError"))
        => result = err.statusCode

\* a ValidationError looked up while the custom table maps its class to a
\* status other than its own
C7_Witness ==
    /\ call.op = "getStatusCode"
    /\ err.cls = "ValidationError"
    /\ \E i \in 1..Len(customMappings) :
           /\ customMappings[i][1] = "ValidationError"
           /\ customMappings[i][2] # err.statusCode
    /\ result = 400

-----------------------------------------------------------------------------
(* C8: after any sequence of addMapping and removeMapping calls,           *)
(* getStatusCode of an error that is not an ApiError returns the status of *)
(* the first entry, in the order of the current custom table, whose class  *)
(* the error is an instance of (an instance of a subclass matches its      *)
(* superclass's entry), and 500 when no entry matches; a mapping that was  *)
(* removed no longer influences the result.                                *)

\* entry i is an entry for a class of the error and no earlier entry is
EarliestEntryFor(error, i) ==
    /\ i \in 1..Len(customMappings)
    /\ SubclassOf(error.cls, customMappings[i][1])
    /\ \A j \in 1..(i - 1) : ~SubclassOf(error.cls, customMappings[j][1])

C8_LookupStep ==
    /\ (call'.op = "getStatusCode" /\ ~InstanceOf(err', "ApiError"))
           => /\ \A i \in 1..Len(customMappings) :
                     EarliestEntryFor(err', i) => result' = customMappings[i][2]
              /\ (\A i \in 1..Len(customMappings) : ~EarliestEntryFor(err', i))
                     => result' = 500
    /\ call'.op = "removeMapping"
           => /\ \A i \in 1..Len(customMappings') :
                     customMappings'[i][1] # call'.cls
              /\ customMappings' =
                     SelectSeq(customMappings, LAMBDA e : e[1] # call'.cls)
    /\ call'.op = "addMapping"
           => \E i \in 1..Len(customMappings') :
                  customMappings'[i] = <<call'.cls, call'.status>>

C8_FirstMatchingCustomEntry == [][C8_LookupStep]_vars

\* a SubCustomError looked up in a table that maps its superclass first and
\* its own class second, to different statuses
C8_Witness ==
    /\ call.op = "getStatusCode"
    /\ err.cls = "SubCustomError"
    /\ Len(customMappings) >= 2
    /\ customMappings[1][1] = "CustomError"
    /\ \E i \in 2..Len(customMappings) :
           /\ customMappings[i][1] = "SubCustomError"
           /\ customMappings[i][2] # customMappings[1][2]
    /\ result = customMappings[1][2]

-----------------------------------------------------------------------------
(* C9: getSuccessStatusCode(method, hasData) returns, for every            *)
(* letter-casing of the method name and for both values of hasData, 200    *)
(* for GET, PUT, PATCH, HEAD and OPTIONS, 201 for POST, 204 for DELETE,    *)
(* and 200 for every other method name.                                    *)

DocumentedStatus(word) ==
    CASE word \in {M.GET, M.PUT, M.PATCH, M.HEAD, M.OPTIONS} -> 200
      [] word = M.POST   -> 201
      [] word = M.DELETE -> 204
      [] OTHER           -> 200

DocumentedWords ==
    {M.GET, M.POST, M.PUT, M.PATCH, M.DELETE, M.HEAD, M.OPTIONS}

-----------------------------------------------------------------------------
(* JavaScript numbers as the pagination code sees them                     *)

\* a number is NaN, an infinity, a finite fraction n/d of small integers, or
\* a finite magnitude past the safe integers: rank 1 is 2^54, rank 2 is
\* 1e21, rank 3 is 1e100
NaN        == [k |-> "nan"]
Inf(s)     == [k |-> "inf", s |-> s]
Big(s, r)  == [k |-> "big", s |-> s, r |-> r]
Fin(n, d)  == [k |-> "fin", n |-> n, d |-> d]
Whole(n)   == Fin(n, 1)

\* Number.isFinite(x)
IsFinite(x) == x.k \in {"fin", "big"}

\* Number.isInteger(x): every double past the safe integers is whole
IsInteger(x) == x.k = "big" \/ (x.k = "fin" /\ x.n % x.d = 0)

\* where a value that is not a small fraction lies relative to them
Level(x) ==
    CASE x.k = "inf" -> x.s * 100
      [] x.k = "big" -> x.s * x.r
      [] OTHER       -> 0

\* a < b; a comparison with NaN is false
JsLess(a, b) ==
    CASE a.k = "nan" \/ b.k = "nan"   -> FALSE
      [] a.k = "fin" /\ b.k = "fin"   -> a.n * b.d < b.n * a.d
      [] OTHER                        -> Level(a) < Level(b)

\* Number(v) of a number or of undefined
ToNumber(v) == IF v = Undef THEN NaN ELSE v

\* x || y on numbers: NaN and 0 are falsy
JsOr(x, y) == IF x.k = "nan" \/ (x.k = "fin" /\ x.n = 0) THEN y ELSE x

\* x + i for a small integer i: past the safe integers the sum rounds back
\* to x
JsAdd(x, i) == IF x.k = "fin" THEN Fin(x.n + i * x.d, x.d) ELSE x

\* Math.floor and Math.ceil
JsFloor(x) == IF x.k = "fin" THEN Whole(x.n \div x.d) ELSE x
JsCeil(x)  == IF x.k = "fin" THEN Whole(-((-x.n) \div x.d)) ELSE x

\* Math.max and Math.min of two numbers
JsMax(a, b) ==
    IF a.k = "nan" \/ b.k = "nan" THEN NaN ELSE IF JsLess(a, b) THEN b ELSE a
JsMin(a, b) ==
    IF a.k = "nan" \/ b.k = "nan" THEN NaN ELSE IF JsLess(b, a) THEN b ELSE a

\* a / b for a finite divisor b (the divisor is always a page size)
JsDiv(a, b) ==
    CASE a.k = "nan" -> NaN
      [] a.k # "nan" /\ b.n = 0 ->
            IF a.k = "fin" /\ a.n = 0 THEN NaN
            ELSE Inf(IF a.k = "fin" THEN (IF a.n > 0 THEN 1 ELSE -1) ELSE a.s)
      [] a.k = "fin" /\ b.n > 0 -> Fin(a.n * b.d, a.d * b.n)
      [] a.k = "fin" /\ b.n < 0 -> Fin(-(a.n * b.d), a.d * (-b.n))
      [] OTHER -> [a EXCEPT !.s = IF b.n > 0 THEN a.s ELSE -a.s]

-----------------------------------------------------------------------------
(* utils/validators: pagination input and metadata                         *)

\* faulty variant of validatePaginationInput: no Math.floor
validatePaginationInput_NoFloor(input, cfg) ==
    [page  |-> JsMax(Whole(1), JsOr(ToNumber(input.page), Whole(1))),
     limit |-> JsMin(cfg.maxLimit,
                     JsMax(Whole(1), JsOr(ToNumber(input.limit), cfg.defaultLimit))),
     total |-> JsMax(Whole(0), JsOr(ToNumber(input.total), Whole(0)))]

\* validatePaginationInput(input, config); a field the caller left out is
\* Undef
validatePaginationInput(input, cfg) ==
    [page  |-> JsMax(Whole(1), JsFloor(JsOr(ToNumber(input.page), Whole(1)))),
     limit |-> JsMin(cfg.maxLimit,
                     JsMax(Whole(1),
                           JsFloor(JsOr(ToNumber(input.limit),
                                        cfg.defaultLimit)))),
     total |-> JsMax(Whole(0), JsFloor(JsOr(ToNumber(input.total), Whole(0))))]

-----------------------------------------------------------------------------
(* URL and URLSearchParams as the link builders use them                   *)

\* a parsed URL is its part before the query and its query pairs in order;
\* the text that new URL() rejects is BadUrl
Url(base, query) == [t |-> "url", base |-> base, query |-> query]
BadUrl == [t |-> "badurl"]

\* url.searchParams.set(name, value): the first pair of that name takes the
\* value and the others go; a new name is appended
SearchSet(query, name, value) ==
    IF \E i \in 1..Len(query) : query[i][1] = name
    THEN LET first == CHOOSE i \in 1..Len(query) :
                          /\ query[i][1] = name
                          /\ \A j \in 1..(i - 1) : query[j][1] # name
             kept  == {i \in 1..Len(query) : query[i][1] # name \/ i = first}
             Pick(i) == CHOOSE k \in kept : Cardinality({j \in kept : j < k}) = i - 1
         IN  [i \in 1..Cardinality(kept) |->
                 IF Pick(i) = first THEN <<name, value>> ELSE query[Pick(i)]]
    ELSE Append(query, <<name, value>>)

\* url.searchParams.delete(name)
SearchDelete(query, name) ==
    LET Other(p) == p[1] # name IN SelectSeq(query, Other)

\* application/x-www-form-urlencoded form of one character
FormEncodeChar(c) ==
    CASE c = " " -> <<"+">>
      [] c = "+" -> <<"%", "2", "B">>
      [] c = "/" -> <<"%", "2", "F">>
      [] c = "=" -> <<"%", "3", "D">>
      [] c = "'" -> <<"%", "2", "7">>
      [] c = ";" -> <<"%", "3", "B">>
      [] c = "<" -> <<"%", "3", "C">>
      [] OTHER   -> <<c>>

RECURSIVE FormEncode(_)
FormEncode(s) ==
    CASE Len(s) = 0 -> <<>>
      [] Len(s) = 1 -> FormEncodeChar(s[1])
      [] OTHER ->
            LET mid == Len(s) \div 2
            IN  FormEncode(SubSeq(s, 1, mid)) \o FormEncode(SubSeq(s, mid + 1, Len(s)))

RECURSIVE SearchText(_)
\* url.searchParams.toString()
SearchText(query) ==
    IF query = <<>> THEN <<>>
    ELSE FormEncode(query[1][1]) \o <<"=">> \o FormEncode(query[1][2])
             \o (IF Len(query) = 1 THEN <<>> ELSE <<"&">> \o SearchText(Tail(query)))

\* url.toString()
Href(url) == [base |-> url.base, search |-> SearchText(url.query)]

\* String(x) of a number
NumberToString(x) ==
    CASE x.k = "nan" -> K.NaN
      [] x.k = "inf" -> IF x.s > 0 THEN K.Infinity ELSE <<"-">> \o K.Infinity
      [] x.k = "big" -> (IF x.s > 0 THEN <<>> ELSE <<"-">>) \o K.big[x.r]
      [] OTHER       -> IF x.n < 0 THEN <<"-">> \o IndexKey(-x.n) ELSE IndexKey(x.n)

\* generatePaginationLinks(page, totalPages, limit, baseUrl): every link is
\* the one url object after its page and limit have been set
generatePaginationLinks(page, totalPages, limit, baseUrl) ==
    LET createLink(p) ==
            Href(Url(baseUrl.base,
                     SearchSet(SearchSet(baseUrl.query, K.page, NumberToString(p)),
                               K.limit, NumberToString(limit))))
    IN  [self     |-> createLink(page),
         first    |-> createLink(Whole(1)),
         last     |-> createLink(totalPages),
         next     |-> IF JsLess(page, totalPages)
                      THEN createLink(JsAdd(page, 1)) ELSE Absent,
         previous |-> IF JsLess(Whole(1), page)
                      THEN createLink(JsAdd(page, -1)) ELSE Absent]

\* faulty variant of the page count: no floor of one page
TotalPages_NoMinimum(total, limit) == JsCeil(JsDiv(total, limit))

\* const totalPages = Math.ceil(total / limit) || 1
TotalPages(total, limit) == JsOr(JsCeil(JsDiv(total, limit)), Whole(1))

\* calculatePaginationMeta(input, baseUrl); baseUrl is Undef when not given
calculatePaginationMeta(input, baseUrl) ==
    LET totalPages == TotalPages(input.total, input.limit)
    IN  IF baseUrl = BadUrl THEN Raised
        ELSE [page            |-> input.page,
              limit           |-> input.limit,
              total           |-> input.total,
              totalPages      |-> totalPages,
              hasNextPage     |-> JsLess(input.page, totalPages),
              hasPreviousPage |-> JsLess(Whole(1), input.page),
              links           |-> IF baseUrl = Undef THEN Absent
                                  ELSE generatePaginationLinks(input.page,
                                           totalPages, input.limit, baseUrl)]

\* PaginationHelper.buildMeta(input, baseUrl)
buildMeta(cfg, input, baseUrl) ==
    calculatePaginationMeta(validatePaginationInput(input, cfg),
        IF cfg.includeLinks
        THEN (IF baseUrl # Undef THEN baseUrl ELSE cfg.baseUrl) ELSE Undef)

\* a string held as its characters; a cursor is one of these or Undef
Text(cs) == [t |-> "text", cs |-> cs]

\* truthiness of a cursor: a non-empty string
IsSet(v) == v.t = "text" /\ v.cs # <<>>

\* generateCursorPaginationLinks(input, baseUrl): the links share one url
\* object, so each link starts from the query the one before it left
generateCursorPaginationLinks(input, baseUrl) ==
    LET createLink(query, cursor) ==
            SearchSet(IF IsSet(cursor) THEN SearchSet(query, K.cursor, cursor.cs)
                      ELSE SearchDelete(query, K.cursor),
                      K.limit, NumberToString(input.limit))
        q1 == createLink(baseUrl.query, input.cursor)
        hasNext == IsSet(input.nextCursor) /\ input.hasMore
        q2 == IF hasNext THEN createLink(q1, input.nextCursor) ELSE q1
        q3 == createLink(q2, input.previousCursor)
    IN  [self     |-> Href(Url(baseUrl.base, q1)),
         next     |-> IF hasNext THEN Href(Url(baseUrl.base, q2)) ELSE Absent,
         previous |-> IF IsSet(input.previousCursor)
                      THEN Href(Url(baseUrl.base, q3)) ELSE Absent]

\* calculateCursorPaginationMeta(input, baseUrl)
calculateCursorPaginationMeta(input, baseUrl) ==
    IF baseUrl = BadUrl THEN Raised
    ELSE [limit          |-> input.limit,
          hasMore        |-> input.hasMore,
          cursor         |-> IF IsSet(input.cursor) THEN input.cursor ELSE Absent,
          nextCursor     |-> IF IsSet(input.nextCursor)
                             THEN input.nextCursor ELSE Absent,
          previousCursor |-> IF IsSet(input.previousCursor)
                             THEN input.previousCursor ELSE Absent,
          links          |-> IF baseUrl = Undef THEN Absent
                             ELSE generateCursorPaginationLinks(input, baseUrl)]

-----------------------------------------------------------------------------
(* core/ResponseFormatter: hooks and the four formatting methods           *)

\* the user-supplied PreResponseHook functions the model draws from
\*   "modified": (data, meta) => ({ data: {...data, modified: true}, meta })
\*   "markA"   : (data, meta) => ({ data, meta: {...meta, a: true} })
\*   "markB"   : (data, meta) => ({ data, meta: {...meta, b: true} })
RunPreHook(hook, pair) ==
    CASE hook = "modified" ->
            [data |-> Obj(SetKey(Spread(pair.data), K.modified, True)),
             meta |-> pair.meta]
      [] hook = "markA" ->
            [data |-> pair.data, meta |-> Obj(SetKey(Spread(pair.meta), K.a, True))]
      [] OTHER ->
            [data |-> pair.data, meta |-> Obj(SetKey(Spread(pair.meta), K.b, True))]

RECURSIVE applyPreHooks_Reversed(_, _, _)
\* faulty variant of applyPreHooks: the last registered hook runs first
applyPreHooks_Reversed(hooks, pair, lg) ==
    IF hooks = <<>> THEN [out |-> pair, log |-> lg]
    ELSE LET last == hooks[Len(hooks)]
         IN  applyPreHooks_Reversed(SubSeq(hooks, 1, Len(hooks) - 1),
                 RunPreHook(last, pair),
                 Append(lg, Invocation("pre", last, pair)))

RECURSIVE applyPreHooks(_, _, _)
\* ResponseFormatter.applyPreHooks: the hooks in order, each on the pair the
\* one before returned; lg collects the invocations
applyPreHooks(hooks, pair, lg) ==
    IF hooks = <<>> THEN [out |-> pair, log |-> lg]
    ELSE applyPreHooks(Tail(hooks), RunPreHook(Head(hooks), pair),
                       Append(lg, Invocation("pre", Head(hooks), pair)))

\* if (processed.meta && Object.keys(processed.meta).length > 0)
MetaToSend(m) == IF m.t = "obj" /\ Len(m.ents) > 0 THEN m ELSE Absent

\* ResponseFormatter.formatSuccess(data, meta)
formatSuccess(data, m, cfg) ==
    LET processed == applyPreHooks(cfg.preResponseHooks, [data |-> data, meta |-> m], <<>>)
        response ==
            [success   |-> TRUE,
             data      |-> processed.out.data,
             timestamp |-> getTimestamp(cfg),
             meta      |-> MetaToSend(processed.out.meta),
             custom    |-> Absent]
    IN  Finish(cfg, response, processed.log)

\* the end of formatPaginated and formatCursorPaginated: the post hooks
FinishPaginated(cfg, response, lg) ==
    LET r == applyPostHooks(cfg.postResponseHooks, response, lg)
    IN  [cfg |-> cfg, out |-> r.out, log |-> r.log]

\* ResponseFormatter.formatPaginated(data, paginationInput, meta, baseUrl)
formatPaginated(data, paginationInput, m, baseUrl, cfg) ==
    LET processed == applyPreHooks(cfg.preResponseHooks, [data |-> data, meta |-> m], <<>>)
        validatedInput == validatePaginationInput(paginationInput, cfg.pagination)
        paginationMeta ==
            calculatePaginationMeta(validatedInput,
                IF cfg.pagination.includeLinks THEN baseUrl ELSE Undef)
        response ==
            [success    |-> TRUE,
             data       |-> processed.out.data,
             pagination |-> paginationMeta,
             timestamp  |-> getTimestamp(cfg),
             meta       |-> MetaToSend(processed.out.meta),
             custom     |-> Absent]
    IN  IF paginationMeta = Raised
        THEN [cfg |-> cfg, out |-> Raised, log |-> processed.log]
        ELSE FinishPaginated(cfg, response, processed.log)

\* ResponseFormatter.formatCursorPaginated(data, cursorInput, meta, baseUrl)
formatCursorPaginated(data, cursorInput, m, baseUrl, cfg) ==
    LET processed == applyPreHooks(cfg.preResponseHooks, [data |-> data, meta |-> m], <<>>)
        paginationMeta ==
            calculateCursorPaginationMeta(cursorInput,
                IF cfg.pagination.includeLinks THEN baseUrl ELSE Undef)
        response ==
            [success    |-> TRUE,
             data       |-> processed.out.data,
             pagination |-> paginationMeta,
             timestamp  |-> getTimestamp(cfg),
             meta       |-> MetaToSend(processed.out.meta),
             custom     |-> Absent]
    IN  IF paginationMeta = Raised
        THEN [cfg |-> cfg, out |-> Raised, log |-> processed.log]
        ELSE FinishPaginated(cfg, response, processed.log)

-----------------------------------------------------------------------------
(* One formatter instance shared by the requests of an application         *)

PreHookLists == {<<>>, <<"markA", "markB">>, <<"markB", "modified", "markA">>}

PostHookLists == {<<>>, <<"processed", "serverTime">>, <<"serverTime", "processed">>}

SharedFormatterInputs ==
    {[preResponseHooks  |-> pre,
      postResponseHooks |-> post,
      passthroughMode   |-> f.passthroughMode,
      customFormatter   |-> f.customFormatter,
      pagination        |-> [includeLinks |-> links]] :
        pre \in PreHookLists, post \in PostHookLists,
        f \in [passthroughMode : BOOLEAN, customFormatter : {"none", "spread"}],
        links \in BOOLEAN}

DataValues ==
    {Obj(<< <<K.id, Num("1")>> >>), Arr(<<Num("1"), Num("2")>>), Null}

\* page, limit and total as callers pass them; Undef is a field left out
PaginationInputs ==
    {[page |-> Whole(1), limit |-> Whole(10),   total |-> Whole(0)],
     [page |-> Whole(5), limit |-> Whole(10),   total |-> Whole(50)],
     [page |-> Whole(2), limit |-> Whole(10),   total |-> Whole(35)],
     [page |-> Undef,    limit |-> Undef,       total |-> Whole(50)],
     [page |-> Whole(0), limit |-> Whole(1000), total |-> Whole(35)],
     [page |-> Whole(5), limit |-> Undef,       total |-> Undef]}

BaseUrls ==
    {Undef, BadUrl,
     Url("https://api.example.com/items", <<>>),
     Url("https://api.example.com/items", << <<K.cursor, <<"o","l","d">> >> >>)}

\* the cursors of the security tests: a base64 one, an identifier, an SQL
\* fragment and an over-long run of one letter
MaxCursorLength == 512
Repeat(c, n) == [i \in 1..n |-> c]
Cursors ==
    {Undef, Text(<<>>),
     Text(<<"e","y","J","p","Z","C","I","6","M","T","I","z","f","Q","=","=">>),
     Text(<<"a","b","c","1","2","3","_","d","e","f","-","4","5","6">>),
     Text(<<"'",";"," ","D","R","O","P"," ","T","A","B","L","E"," ","x",";"," ","-","-">>),
     Text(Repeat("a", MaxCursorLength)),
     Text(Repeat("a", MaxCursorLength + 1))}

CursorInputs ==
    {[limit |-> Whole(10), hasMore |-> more, cursor |-> c,
      nextCursor |-> n, previousCursor |-> p] :
        more \in BOOLEAN, c \in Cursors,
        n \in {Undef, Text(<<"n","e","x","t","=">>), Text(<<"<","s",">">>)},
        p \in {Undef, Text(<<"p","r","e","v">>)}}

SharedErrors ==
    {ApiError("ApiError", "Test", "TEST", SomeNumber(400), Undef, Undef, Undef),
     PredefinedError("NotFoundError", "Not found", Undef, Undef, Undef),
     StandardError("CustomError", "Standard error", Undef)}

\* a formatter has been constructed; no request has used it yet
InitShared ==
    /\ config \in {mergeConfig(i) : i \in SharedFormatterInputs}
    /\ customMappings = << <<"CustomError", 422>> >>
    /\ heap = EmptyHeap
    /\ err = StandardError("Error", "unknown", Undef)
    /\ opts = defaultOptions
    /\ meta = Absent
    /\ result = Absent
    /\ pc = "ready"
    /\ call = NoCall
    /\ log = <<>>
    /\ req = NoRequest
    /\ res = NoResponse
    /\ mw = NoMiddleware

\* what a call on the idle formatter leaves behind
Returned(r, c) ==
    /\ pc = "ready"
    /\ \E v \in {r} :
           /\ result' = v.out
           /\ log' = v.log
           /\ config' = v.cfg
    /\ call' = c
    /\ pc' = "done"
    /\ UNCHANGED <<heap, err, opts, meta, customMappings, req, res, mw>>

\* formatter.formatSuccess(data, meta)
CallFormatSuccess ==
    \E data \in DataValues, m \in Metas :
        Returned(formatSuccess(data, m, config),
                 [op |-> "formatSuccess", data |-> data, meta |-> m])

\* formatter.formatError(error, meta)
CallFormatError ==
    \E error \in SharedErrors, m \in Metas :
        Returned(formatError(heap, error, m, config),
                 [op |-> "formatError", error |-> error, meta |-> m])

\* formatter.formatPaginated(data, paginationInput, meta, baseUrl)
CallFormatPaginated ==
    \E input \in PaginationInputs,
       m \in {Absent, Obj(<< <<K.requestId, Str("req-1")>> >>)},
       baseUrl \in BaseUrls :
        Returned(formatPaginated(Arr(<<Num("1"), Num("2")>>), input, m, baseUrl, config),
                 [op |-> "formatPaginated", data |-> Arr(<<Num("1"), Num("2")>>),
                  meta |-> m, input |-> input, baseUrl |-> baseUrl])

\* formatter.formatCursorPaginated(data, cursorInput, meta, baseUrl)
CallFormatCursorPaginated ==
    \E input \in CursorInputs, baseUrl \in BaseUrls :
        /\ input.hasMore \/ input.nextCursor # Undef
        /\ input.previousCursor = Undef \/ (input.hasMore /\ input.nextCursor # Undef)
        /\ baseUrl \notin {Undef, BadUrl} \/ input.nextCursor = Undef
        /\ Returned(formatCursorPaginated(Arr(<<Num("1"), Num("2")>>), input, Absent,
                                          baseUrl, config),
                    [op |-> "formatCursorPaginated", data |-> Arr(<<Num("1"), Num("2")>>),
                     meta |-> Absent, input |-> input, baseUrl |-> baseUrl])

\* formatter.getErrorStatusCode(error)
CallGetErrorStatusCode ==
    \E error \in SharedErrors :
        Returned([out |-> getStatusCode(customMappings, error), log |-> <<>>,
                  cfg |-> config],
                 [op |-> "getErrorStatusCode", error |-> error])

\* formatter.getSuccessStatusCode(method, hasData)
CallGetSuccessStatusCode ==
    \E m \in {M.GET, M.POST, M.DELETE}, hasData \in BOOLEAN :
        Returned([out |-> getSuccessStatusCode(m, hasData), log |-> <<>>,
                  cfg |-> config],
                 [op |-> "getSuccessStatusCode", method |-> m, hasData |-> hasData])

\* the handler has sent its response; the formatter, as the call left it,
\* waits for the next request
NextRequest ==
    /\ pc = "done"
    /\ pc' = "ready"
    /\ result' = Absent
    /\ call' = NoCall
    /\ log' = <<>>
    /\ UNCHANGED <<heap, err, opts, meta, config, customMappings, req, res, mw>>

NextShared ==
    \/ NextRequest
    \/ CallFormatSuccess
    \/ CallFormatError
    \/ CallFormatPaginated
    \/ CallFormatCursorPaginated
    \/ CallGetErrorStatusCode
    \/ CallGetSuccessStatusCode

SpecShared == InitShared /\ [][NextShared]_vars

-----------------------------------------------------------------------------
(* C11: formatSuccess, formatPaginated and formatCursorPaginated invoke    *)
(* each registered pre-response hook exactly once, in registration order,  *)
(* each on the (data, meta) pair the previous hook returned, and build the *)
(* envelope's data and meta from the last hook's output; formatError       *)
(* invokes no pre-response hook.                                           *)

SuccessMethods == {"formatSuccess", "formatPaginated", "formatCursorPaginated"}

\* the invocations of one kind that the last call made, in order
InvocationsOf(kinds) == LET Of(e) == e.kind \in kinds IN SelectSeq(log, Of)

\* the envelope as it stood when the method had assembled it: what the first
\* post hook or the custom formatter was handed, or the returned value when
\* neither ran
BuiltEnvelope ==
    LET after == InvocationsOf({"post", "formatter"})
    IN  IF after = <<>> THEN result ELSE after[1].arg

\* what the last pre hook returned (the arguments themselves without hooks)
LastPreOutput ==
    LET pre == InvocationsOf({"pre"})
    IN  IF pre = <<>> THEN [data |-> call.data, meta |-> call.meta]
        ELSE RunPreHook(pre[Len(pre)].hook, pre[Len(pre)].arg)

C11_PreHooksInOrder ==
    LET pre   == InvocationsOf({"pre"})
        hooks == config.preResponseHooks
    IN  /\ (pc = "done" /\ call.op \in SuccessMethods) =>
              /\ Len(pre) = Len(hooks)
              /\ \A i \in 1..Len(pre) : pre[i].hook = hooks[i]
              /\ pre # <<>> => pre[1].arg = [data |-> call.data, meta |-> call.meta]
              /\ \A i \in 2..Len(pre) : pre[i].arg = RunPreHook(hooks[i - 1], pre[i - 1].arg)
              /\ result # Raised =>
                    /\ BuiltEnvelope.data = LastPreOutput.data
                    /\ BuiltEnvelope.meta \in {Absent, LastPreOutput.meta}
                    /\ (LastPreOutput.meta.t = "obj" /\ LastPreOutput.meta.ents # <<>>)
                           => BuiltEnvelope.meta = LastPreOutput.meta
        /\ (pc = "done" /\ call.op = "formatError") => pre = <<>>

\* three hooks have run on a paginated response: the data carries the field
\* of the second and the meta the markers of the third and the first, in
\* registration order
C11_Witness ==
    /\ pc = "done"
    /\ call.op = "formatPaginated"
    /\ config.preResponseHooks = <<"markB", "modified", "markA">>
    /\ config.postResponseHooks = <<>>
    /\ call.meta = Absent
    /\ result # Raised
    /\ result.data = Obj(<< <<IndexKey(0), Num("1")>>, <<IndexKey(1), Num("2")>>,
                            <<K.modified, True>> >>)
    /\ result.meta = Obj(<< <<K.b, True>>, <<K.a, True>> >>)

-----------------------------------------------------------------------------
(* C12: unless the formatter is in passthrough mode with a custom          *)
(* formatter, the value returned by formatSuccess, formatError,            *)
(* formatPaginated and formatCursorPaginated is the result of applying all *)
(* registered post-response hooks, each exactly once and in registration   *)
(* order, to the fully built envelope.                                     *)

FormatMethods == SuccessMethods \cup {"formatError"}

\* a formatting call has returned a value
FormatReturned == pc = "done" /\ call.op \in FormatMethods /\ result # Raised

\* the post hooks ran over the envelope one after the other and the call
\* returned what the last of them returned
PostHooksApplied ==
    LET post  == InvocationsOf({"post"})
        hooks == config.postResponseHooks
    IN  /\ Len(post) = Len(hooks)
        /\ \A i \in 1..Len(post) : post[i].hook = hooks[i]
        /\ \A i \in 2..Len(post) : post[i].arg = RunPostHook(hooks[i - 1], post[i - 1].arg)
        /\ post # <<>> =>
              /\ result = RunPostHook(hooks[Len(post)], post[Len(post)].arg)
              /\ post[1].arg.success = (call.op # "formatError")
              /\ post[1].arg.timestamp = getTimestamp(config)
              /\ post[1].arg.custom = Absent
              /\ call.op # "formatError" => post[1].arg.data = LastPreOutput.data
              /\ call.op = "formatError" => post[1].arg.meta = MetaToSend(call.meta)

PassthroughConfigured == config.passthroughMode /\ config.customFormatter # "none"

-----------------------------------------------------------------------------
(* C13: when the formatter is configured with a custom formatter function  *)
(* (read here in the narrow sense: passthroughMode is on as well), each of *)
(* formatSuccess, formatError, formatPaginated and formatCursorPaginated   *)
(* passes the assembled envelope to that function and returns exactly what *)
(* the function returns.                                                   *)

C13_CustomFormatterUsed ==
    (FormatReturned /\ PassthroughConfigured) =>
        LET made == InvocationsOf({"formatter"})
        IN  /\ Len(made) = 1
            /\ made[1].hook = config.customFormatter
            /\ result = RunFormatter(config.customFormatter, made[1].arg)

-----------------------------------------------------------------------------
(* Pagination input and metadata on their own                              *)

\* the largest count the inputs reach
MaxCount == 7

\* page, limit and total as a caller may pass them: left out, not a number,
\* infinite, past the safe integers, whole or fractional
NumberInputs ==
    {Undef, NaN, Inf(1), Inf(-1), Big(1, 1), Big(1, 3), Big(-1, 1),
     Fin(1, 2), Fin(5, 2), Fin(-1, 2)}
        \cup {Whole(n) : n \in (-2)..MaxCount}

PaginationConfigs ==
    {[defaultLimit |-> Whole(d), maxLimit |-> Whole(m)] :
        d \in {1, 3, 5}, m \in {1, 5, 100}}

\* a caller holds page, limit and total, and a formatter and a helper with
\* one pagination configuration
InitPagination ==
    /\ \E page \in NumberInputs, limit \in NumberInputs, total \in NumberInputs :
           call = [op |-> "none",
                   input |-> [page |-> page, limit |-> limit, total |-> total]]
    /\ config \in {mergeConfig([pagination |-> p]) : p \in PaginationConfigs}
    /\ customMappings = <<>>
    /\ heap = EmptyHeap
    /\ err = StandardError("Error", "unknown", Undef)
    /\ opts = defaultOptions
    /\ meta = Absent
    /\ result = Absent
    /\ pc = "ready"
    /\ log = <<>>
    /\ req = NoRequest
    /\ res = NoResponse
    /\ mw = NoMiddleware

\* page, limit and total are what validatePaginationInput hands on: whole
\* numbers with page and limit at least 1 and total at least 0
IsPaginationInput(input) ==
    /\ \A f \in {"page", "limit", "total"} : input[f] # Undef /\ IsInteger(input[f])
    /\ input.limit.k = "fin"
    /\ ~JsLess(input.page, Whole(1))
    /\ ~JsLess(input.limit, Whole(1))
    /\ ~JsLess(input.total, Whole(0))

\* the call op has returned r
PaginationReturned(op, r) ==
    /\ pc = "ready"
    /\ result' = r
    /\ call' = [call EXCEPT !.op = op]
    /\ pc' = "done"
    /\ UNCHANGED <<heap, err, opts, meta, config, customMappings, log, req, res, mw>>

\* validatePaginationInput(input, config)
ValidatePaginationInput ==
    PaginationReturned("validatePaginationInput",
        validatePaginationInput(call.input, config.pagination))

\* calculatePaginationMeta(input) on an input of its declared type
CalculatePaginationMeta ==
    /\ IsPaginationInput(call.input)
    /\ PaginationReturned("calculatePaginationMeta",
           calculatePaginationMeta(call.input, Undef))

\* helper.buildMeta(input)
BuildMeta ==
    PaginationReturned("buildMeta", buildMeta(config.pagination, call.input, Undef))

\* formatter.formatPaginated([], input)
FormatPaginatedOnly ==
    PaginationReturned("formatPaginated",
        formatPaginated(Arr(<<>>), call.input, Absent, Undef, config).out)

\* Array.prototype.slice(start, end) for whole numbers start and end
slice(items, start, end) ==
    LET len   == Len(items)
        from  == IF start < 0 THEN (IF len + start < 0 THEN 0 ELSE len + start)
                 ELSE (IF start > len THEN len ELSE start)
        final == IF end < 0 THEN (IF len + end < 0 THEN 0 ELSE len + end)
                 ELSE (IF end > len THEN len ELSE end)
    IN  IF from < final THEN SubSeq(items, from + 1, final) ELSE <<>>

\* PaginationHelper.calculateOffset(page, limit) for whole numbers
calculateOffset(page, limit) == (page - 1) * limit

\* PaginationHelper.paginateArray(items, page, limit) for whole numbers page
\* and limit: the slice, then fromArray(data, page, limit, total)
paginateArray(cfg, items, page, limit) ==
    LET offset == calculateOffset(page.n, limit.n)
    IN  [data       |-> slice(items, offset, offset + limit.n),
         pagination |-> buildMeta(cfg, [page |-> page, limit |-> limit,
                                        total |-> Whole(Len(items))], Undef)]

\* a whole number of counted size
IsCounted(x) == x # Undef /\ x.k = "fin" /\ x.d = 1

\* the array [1, 2, ..., n]
ItemsOf(n) == [i \in 1..n |-> i]

\* helper.paginateArray(items, page, limit), items holding total items
PaginateArray ==
    /\ IsCounted(call.input.page) /\ IsCounted(call.input.limit)
    /\ IsCounted(call.input.total) /\ call.input.total.n >= 0
    /\ PaginationReturned("paginateArray",
           paginateArray(config.pagination, ItemsOf(call.input.total.n),
                         call.input.page, call.input.limit))

NextPagination ==
    \/ ValidatePaginationInput
    \/ CalculatePaginationMeta
    \/ BuildMeta
    \/ FormatPaginatedOnly
    \/ PaginateArray

SpecPagination == InitPagination /\ [][NextPagination]_vars

-----------------------------------------------------------------------------
(* C14: for every validated input (integers page >= 1, 1 <= limit <=       *)
(* maxLimit, total >= 0) the pagination block built by                     *)
(* calculatePaginationMeta, PaginationHelper.buildMeta and formatPaginated *)
(* has totalPages = max(1, ceil(total / limit)), hasNextPage = (page <     *)
(* totalPages) and hasPreviousPage = (page > 1); total 0 gives totalPages  *)
(* 1 with no next and no previous page on page 1.                          *)

\* the input of the last call is a validated one of counted size
ValidatedInput ==
    /\ IsPaginationInput(call.input)
    /\ \A f \in {"page", "limit", "total"} : call.input[f].k = "fin"
    /\ ~JsLess(config.pagination.maxLimit, call.input.limit)

\* the pagination block the last call built
BlockBuilt == IF call.op = "formatPaginated" THEN result.pagination ELSE result

\* the least number of pages of size limit that hold total items, and 1 for
\* none
PagesFor(total, limit) ==
    LET Holds(n) == n * limit >= total
    IN  CHOOSE n \in 1..(total + 1) : Holds(n) /\ (n = 1 \/ ~Holds(n - 1))

C14_PaginationMath ==
    (/\ pc = "done"
     /\ call.op \in {"calculatePaginationMeta", "buildMeta", "formatPaginated"}
     /\ ValidatedInput) =>
        LET page  == call.input.page.n
            limit == call.input.limit.n
            total == call.input.total.n
        IN  /\ BlockBuilt.page = Whole(page)
            /\ BlockBuilt.limit = Whole(limit)
            /\ BlockBuilt.total = Whole(total)
            /\ BlockBuilt.totalPages = Whole(PagesFor(total, limit))
            /\ BlockBuilt.hasNextPage = (page < PagesFor(total, limit))
            /\ BlockBuilt.hasPreviousPage = (page > 1)
            /\ (total = 0 /\ page = 1) =>
                  /\ BlockBuilt.totalPages = Whole(1)
                  /\ ~BlockBuilt.hasNextPage
                  /\ ~BlockBuilt.hasPreviousPage

\* an empty result set on page 1, built by the helper
C14_Witness ==
    /\ pc = "done"
    /\ call.op = "buildMeta"
    /\ call.input = [page |-> Whole(1), limit |-> Whole(5), total |-> Whole(0)]
    /\ ValidatedInput
    /\ result.totalPages = Whole(1)
    /\ ~result.hasNextPage

-----------------------------------------------------------------------------
(* C15: for every finite numeric or missing page, limit and total (zero,   *)
(* negative, fractional or larger than maxLimit) and every pagination      *)
(* config with 1 <= defaultLimit <= maxLimit, validatePaginationInput      *)
(* returns integers with page >= 1, 1 <= limit <= maxLimit and total >= 0; *)
(* a missing page or one below 1 becomes 1; a missing limit or limit 0     *)
(* becomes defaultLimit, while a negative limit or a fraction below 1      *)
(* becomes 1.                                                              *)

FiniteOrMissing(v) == v = Undef \/ IsFinite(v)

\* validatePaginationInput has returned for finite or missing fields under
\* a configuration with 1 <= defaultLimit <= maxLimit
ValidatedFinite ==
    /\ pc = "done"
    /\ call.op = "validatePaginationInput"
    /\ \A f \in {"page", "limit", "total"} : FiniteOrMissing(call.input[f])
    /\ ~JsLess(config.pagination.defaultLimit, Whole(1))
    /\ ~JsLess(config.pagination.maxLimit, config.pagination.defaultLimit)

\* whole numbers in the ranges of a page request
InRange ==
    /\ IsInteger(result.page) /\ ~JsLess(result.page, Whole(1))
    /\ IsInteger(result.limit) /\ ~JsLess(result.limit, Whole(1))
    /\ ~JsLess(config.pagination.maxLimit, result.limit)
    /\ IsInteger(result.total) /\ ~JsLess(result.total, Whole(0))

BelowOne(v) == v = Undef \/ JsLess(v, Whole(1))

-----------------------------------------------------------------------------
(* C16: for page, limit or total that is NaN, +Infinity, -Infinity or      *)
(* beyond the safe integer range, validatePaginationInput returns finite   *)
(* values for all three fields, with page defaulting to 1 and limit to     *)
(* defaultLimit, and the page it returns never exceeds 1,000,000.          *)

MaxPage == 1000000

\* not a number, infinite, or past the safe integers
Unsafe(v) == v # Undef /\ v.k \in {"nan", "inf", "big"}

C16_UnsafeInputsTamed ==
    (/\ pc = "done"
     /\ call.op = "validatePaginationInput"
     /\ \E f \in {"page", "limit", "total"} : Unsafe(call.input[f])) =>
        /\ \A f \in {"page", "limit", "total"} : IsFinite(result[f])
        /\ ~JsLess(Whole(MaxPage), result.page)
        /\ Unsafe(call.input.page) => result.page = Whole(1)
        /\ Unsafe(call.input.limit) =>
               result.limit = JsMin(config.pagination.maxLimit,
                                    config.pagination.defaultLimit)

-----------------------------------------------------------------------------
(* PaginationHelper: cursor and limit taken from a request's query         *)

Range(s) == {s[i] : i \in 1..Len(s)}

\* the characters of /^[a-zA-Z0-9+/=_-]+$/
CursorAlphabet ==
    Range(UpperLetters) \cup Range(LowerLetters) \cup Range(Digits)
        \cup {"+", "/", "=", "_", "-"}

\* faulty variant of validateCursor: no limit on the length
validateCursor_AnyLength(cursor) ==
    IF cursor.t # "text" \/ Len(cursor.cs) = 0 THEN Undef
    ELSE IF \E i \in 1..Len(cursor.cs) : cursor.cs[i] \notin CursorAlphabet THEN Undef
    ELSE cursor

\* PaginationHelper.validateCursor(cursor)
validateCursor(cursor) ==
    IF cursor.t # "text" \/ Len(cursor.cs) = 0 THEN Undef
    ELSE IF Len(cursor.cs) > MaxCursorLength THEN Undef
    ELSE IF \E i \in 1..Len(cursor.cs) : cursor.cs[i] \notin CursorAlphabet THEN Undef
    ELSE cursor

\* the value of a decimal digit
DigitValue(c) == (CHOOSE i \in 1..10 : Digits[i] = c) - 1

\* the most digits whose value is counted out; longer runs are past the
\* safe integers
CountedDigits == 6

RECURSIVE DecimalValue(_)
DecimalValue(ds) ==
    IF ds = <<>> THEN 0
    ELSE 10 * DecimalValue(SubSeq(ds, 1, Len(ds) - 1)) + DigitValue(ds[Len(ds)])

\* parseInt(text, 10): leading white space, an optional sign, then the
\* longest run of digits; NaN when there is no digit
parseInt(cs) ==
    LET blanks == IF \E i \in 1..Len(cs) : cs[i] # " "
                  THEN (CHOOSE i \in 1..Len(cs) :
                            cs[i] # " " /\ \A j \in 1..(i - 1) : cs[j] = " ") - 1
                  ELSE Len(cs)
        rest   == SubSeq(cs, blanks + 1, Len(cs))
        signed == rest # <<>> /\ rest[1] \in {"+", "-"}
        sign   == IF signed /\ rest[1] = "-" THEN -1 ELSE 1
        body   == IF signed THEN Tail(rest) ELSE rest
        count  == IF \E i \in 1..Len(body) : body[i] \notin Range(Digits)
                  THEN (CHOOSE i \in 1..Len(body) :
                            /\ body[i] \notin Range(Digits)
                            /\ \A j \in 1..(i - 1) : body[j] \in Range(Digits)) - 1
                  ELSE Len(body)
    IN  CASE count = 0 -> NaN
          [] count \in 1..CountedDigits -> Whole(sign * DecimalValue(SubSeq(body, 1, count)))
          [] OTHER -> Big(sign, IF count < 21 THEN 1 ELSE IF count < 100 THEN 2 ELSE 3)

\* PaginationHelper.safeParseInt(value, fallback, max)
safeParseInt(value, fallback, max) ==
    IF value.t # "text" THEN fallback
    ELSE IF ~IsFinite(parseInt(value.cs)) THEN fallback
    ELSE JsMin(max, JsMax(Whole(1), parseInt(value.cs)))

\* PaginationHelper.extractCursorFromRequest(req)
extractCursorFromRequest(cfg, query) ==
    [cursor |-> validateCursor(query.cursor),
     limit  |-> JsMin(cfg.maxLimit,
                      safeParseInt(query.limit, cfg.defaultLimit, cfg.maxLimit))]

\* req.query.cursor as the framework delivers it: absent, a string, or a
\* list when the parameter is repeated
QueryCursors ==
    Cursors \cup {Arr(<<>>), Text(<<"a", "b", "\n">>), Text(<<"a">>),
                  Text(<<"+", "/", "=", "_", "-">>), Text(<<"a", " ", "b">>)}

QueryLimits ==
    {Undef, Arr(<<>>), Text(<<>>), Text(<<"1", "0">>), Text(<<"0">>),
     Text(<<"-", "5">>), Text(<<"a", "b", "c">>), Text(<<"1", "e", "1", "0", "0">>),
     Text(<<" ", "4", "2">>), Text(<<"1", "2", "p", "x">>), Text(<<"1", "0", "0", "0">>),
     Text(<<"I", "n", "f", "i", "n", "i", "t", "y">>),
     Text(Repeat("9", 21))}

\* a request has reached a handler that holds a pagination helper
InitCursor ==
    /\ \E c \in QueryCursors, l \in QueryLimits :
           call = [op |-> "none", query |-> [cursor |-> c, limit |-> l]]
    /\ config \in {mergeConfig([pagination |-> p]) : p \in PaginationConfigs}
    /\ customMappings = <<>>
    /\ heap = EmptyHeap
    /\ err = StandardError("Error", "unknown", Undef)
    /\ opts = defaultOptions
    /\ meta = Absent
    /\ result = Absent
    /\ pc = "ready"
    /\ log = <<>>
    /\ req = NoRequest
    /\ res = NoResponse
    /\ mw = NoMiddleware

\* helper.extractCursorFromRequest(req)
ExtractCursorFromRequest ==
    /\ pc = "ready"
    /\ result' = extractCursorFromRequest(config.pagination, call.query)
    /\ call' = [call EXCEPT !.op = "extractCursorFromRequest"]
    /\ pc' = "done"
    /\ UNCHANGED <<heap, err, opts, meta, config, customMappings, log, req, res, mw>>

NextCursor == ExtractCursorFromRequest

SpecCursor == InitCursor /\ [][NextCursor]_vars

-----------------------------------------------------------------------------
(* C17: extractCursorFromRequest returns the request's cursor unchanged    *)
(* when it is a non-empty string of at most 512 characters made only of    *)
(* letters, digits and the characters + / = _ -, and returns cursor        *)
(* undefined without raising an error for every other value; the limit it  *)
(* returns is always within [1, maxLimit] (the helper being configured     *)
(* with defaultLimit and maxLimit of at least 1).                          *)

WellFormedCursor(v) ==
    /\ v.t = "text"
    /\ Len(v.cs) \in 1..MaxCursorLength
    /\ \A i \in 1..Len(v.cs) :
           \/ v.cs[i] \in Range(UpperLetters) \cup Range(LowerLetters)
           \/ v.cs[i] \in Range(Digits)
           \/ v.cs[i] \in {"+", "/", "=", "_", "-"}

C17_CursorAcceptedOrDropped ==
    (pc = "done" /\ call.op = "extractCursorFromRequest") =>
        /\ result # Raised
        /\ WellFormedCursor(call.query.cursor) => result.cursor = call.query.cursor
        /\ ~WellFormedCursor(call.query.cursor) => result.cursor = Undef
        /\ IsInteger(result.limit)
        /\ ~JsLess(result.limit, Whole(1))
        /\ ~JsLess(config.pagination.maxLimit, result.limit)

\* an over-long cursor and a limit past maxLimit: the cursor is dropped and
\* the limit capped
C17_Witness ==
    /\ pc = "done"
    /\ call.op = "extractCursorFromRequest"
    /\ call.query.cursor = Text(Repeat("a", MaxCursorLength + 1))
    /\ call.query.limit = Text(<<"1", "0", "0", "0">>)
    /\ config.pagination.maxLimit = Whole(100)
    /\ result = [cursor |-> Undef, limit |-> Whole(100)]

-----------------------------------------------------------------------------
(* C18: in every envelope produced by formatCursorPaginated each of        *)
(* pagination.cursor, pagination.nextCursor and pagination.previousCursor  *)
(* that is present is a string of at most 512 characters from the          *)
(* restricted character set; a malformed cursor given in the input is      *)
(* omitted from the envelope and from its links rather than copied or      *)
(* rejected.                                                               *)

CursorFields == {"cursor", "nextCursor", "previousCursor"}

\* the link text carries the form-encoded cursor as a query value
LinkCarries(link, cursor) ==
    LET needle == K.cursor \o <<"=">> \o FormEncode(cursor.cs)
    IN  /\ link # Absent
        /\ \E i \in 1..Len(link.search) :
               /\ i + Len(needle) - 1 <= Len(link.search)
               /\ SubSeq(link.search, i, i + Len(needle) - 1) = needle
               /\ i + Len(needle) - 1 = Len(link.search)
                      \/ link.search[i + Len(needle)] = "&"

C18_OnlyWellFormedCursors ==
    (FormatReturned /\ call.op = "formatCursorPaginated") =>
        \A f \in CursorFields :
            /\ result.pagination[f] # Absent => WellFormedCursor(result.pagination[f])
            /\ (IsSet(call.input[f]) /\ ~WellFormedCursor(call.input[f])) =>
                  /\ result.pagination[f] = Absent
                  /\ result.pagination.links # Absent =>
                        \A l \in {"self", "next", "previous"} :
                            ~LinkCarries(result.pagination.links[l], call.input[f])

-----------------------------------------------------------------------------
(* Errors from their construction to the status the middleware sends       *)

\* the statusCode option of new ApiError(message, options)
ConstructorStatuses ==
    {NoNumber} \cup {SomeNumber(n) : n \in {-1, 0, 42, 99, 100, 200, 404, 599, 600, 999}}

\* faulty variant of withContext: the given context replaces the context of
\* this error instead of being spread over it
withContext_Replacing(error, context) ==
    WithOptions(ApiError("ApiError", error.message, error.code,
                         SomeNumber(error.statusCode), error.details,
                         error.fields, error.stack),
                Obj(Spread(context)), error.isOperational)

\* error.withContext(context): new ApiError(this.message, {...}), a base
\* ApiError with the code, statusCode, details, fields and isOperational of
\* this one and the context { ...this.context, ...context }
withContext(error, context) ==
    WithOptions(ApiError("ApiError", error.message, error.code,
                         SomeNumber(error.statusCode), error.details,
                         error.fields, error.stack),
                Obj(SpreadOver(Spread(error.context), Spread(context))),
                error.isOperational)

\* createError(ErrorClass, message, context):
\* const error = new ErrorClass(message);
\* return context ? error.withContext(context) : error
createError(cls, message, context) ==
    LET error == PredefinedError(cls, message, Undef, Undef, Undef)
    IN  IF Truthy(context) THEN withContext(error, context) ELSE error

\* the context arguments the model draws from: none, {}, { requestId }
GivenContexts ==
    {Undef, Obj(<<>>), Obj(<< <<K.requestId, Str("req-123")>> >>)}

\* a handler is about to fail
InitError ==
    /\ err = StandardError("Error", "unknown", Undef)
    /\ customMappings \in {<<>>, << <<"ApiError", 422>> >>}
    /\ config = defaultConfig
    /\ heap = EmptyHeap
    /\ opts = defaultOptions
    /\ meta = Absent
    /\ result = 0
    /\ pc = "ready"
    /\ call = NoCall
    /\ log = <<>>
    /\ req = NoRequest
    /\ res = NoResponse
    /\ mw = NoMiddleware

\* err' is the error that the call c has made
Made(error, c) ==
    /\ pc = "ready"
    /\ err' = error
    /\ call' = c
    /\ pc' = "made"
    /\ UNCHANGED <<heap, opts, meta, result, config, customMappings, log, req, res, mw>>

\* new ApiError(message, { code, statusCode })
NewApiError ==
    \E st \in ConstructorStatuses, code \in {"", "TEST"} :
        Made(ApiError("ApiError", "Test", code, st, Undef, Undef, Undef),
             [op |-> "new ApiError", statusCode |-> st])

\* new NotFoundError(message), new ValidationError(message), ...
NewPredefinedError ==
    \E cls \in PredefinedErrors :
        Made(PredefinedError(cls, "Predefined", Undef, Undef, Undef),
             [op |-> "new", cls |-> cls])

\* createError(ErrorClass, message, context)
CreateError ==
    \E cls \in PredefinedErrors, context \in GivenContexts :
        Made(createError(cls, "Created", context),
             [op |-> "createError", cls |-> cls, context |-> context])

\* error.withContext(context)
WithContext ==
    /\ pc = "made"
    /\ InstanceOf(err, "ApiError")
    /\ \E context \in GivenContexts \ {Undef} : err' = withContext(err, context)
    /\ pc' = "contexted"
    /\ UNCHANGED <<heap, opts, meta, result, config, customMappings, call, log, req, res, mw>>

\* the error middleware: res.status(formatter.getErrorStatusCode(error))
SendError ==
    /\ pc \in {"made", "contexted"}
    /\ result' = getStatusCode(customMappings, err)
    /\ pc' = "sent"
    /\ UNCHANGED <<heap, err, opts, meta, config, customMappings, call, log, req, res, mw>>

NextError ==
    \/ NewApiError
    \/ NewPredefinedError
    \/ CreateError
    \/ WithContext
    \/ SendError

SpecError == InitError /\ [][NextError]_vars

-----------------------------------------------------------------------------
(* C19: every ApiError instance, however it is created (base class with    *)
(* any statusCode option, a predefined subclass, withContext,              *)
(* createError), has a statusCode that is an integer in 100..599, so the   *)
(* HTTP status that the error middleware sends for it is always in that    *)
(* range.                                                                  *)

HttpStatuses == 100..599

C19_StatusCodeIsHttpStatus ==
    /\ (pc \in {"made", "contexted", "sent"} /\ InstanceOf(err, "ApiError"))
           => err.statusCode \in HttpStatuses
    /\ pc = "sent" => result \in HttpStatuses

-----------------------------------------------------------------------------
(* C20: formatSuccess, formatError, formatPaginated,                       *)
(* formatCursorPaginated, getErrorStatusCode and getSuccessStatusCode      *)
(* leave the formatter's configuration, hook lists and status mapping      *)
(* table unchanged, so on one shared formatter instance each call, after   *)
(* any calls before it, returns what it would return if it ran alone.      *)

\* what the call c returns on a formatter with configuration cfg and status
\* mapping table mappings that no call has used
ReturnsAlone(c, cfg, mappings) ==
    CASE c.op = "formatSuccess" -> formatSuccess(c.data, c.meta, cfg).out
      [] c.op = "formatError" -> formatError(EmptyHeap, c.error, c.meta, cfg).out
      [] c.op = "formatPaginated" ->
            formatPaginated(c.data, c.input, c.meta, c.baseUrl, cfg).out
      [] c.op = "formatCursorPaginated" ->
            formatCursorPaginated(c.data, c.input, c.meta, c.baseUrl, cfg).out
      [] c.op = "getErrorStatusCode" -> getStatusCode(mappings, c.error)
      [] c.op = "getSuccessStatusCode" -> getSuccessStatusCode(c.method, c.hasData)

\* a step in which the formatter serves a call
ServesCall == pc = "ready" /\ pc' = "done"

-----------------------------------------------------------------------------
(* Several mappers and a formatter built by one caller                     *)
(* heap holds the Map objects; customMappings holds, for each instance,    *)
(* the Map its field this.customMappings refers to                         *)

\* the Map objects: the one the caller builds, the ones `new Map()` makes in
\* the three constructors, and the module's defaultErrorMappings
CallerMap   == "callerMap"
DefaultsMap == "defaultErrorMappings"
FreshMap(instance) == "new Map() of " \o instance

Mappers   == {"mapperA", "mapperB"}
Instances == Mappers \cup {"formatter"}

\* constructor(customMappings?): this.customMappings = customMappings || new Map()
\* the Map object the field refers to; `given` is Undef or a reference
StatusCodeMapper(instance, given) ==
    IF given = Undef THEN FreshMap(instance) ELSE given.id

\* new ResponseFormatter({customErrorMappers}): mergeConfig spreads the input,
\* so config.customErrorMappers is the caller's Map or undefined, and the
\* constructor hands it to new StatusCodeMapper
ResponseFormatter(given) == StatusCodeMapper("formatter", given)

\* the table an instance's getStatusCode iterates
TableOf(h, fields, instance) == h[fields[instance]]

InstanceClasses  == {"CustomError", "SubCustomError"}
InstanceErrors ==
    {StandardError(c, "Standard error", Undef) :
         c \in {"Error", "CustomError", "SubCustomError"}}
      \cup {PredefinedError("NotFoundError", "Predefined", Undef, Undef, Undef)}

\* const map = new Map(...); then the three instances are constructed, each
\* with the caller's Map or with nothing
InitInstances ==
    /\ \E given \in [Instances -> {Undef, Ref(CallerMap)}],
          entries \in {<<>>, << <<"CustomError", 422>> >>} :
           /\ customMappings =
                  [i \in Instances |->
                      IF i = "formatter" THEN ResponseFormatter(given[i])
                      ELSE StatusCodeMapper(i, given[i])]
           /\ heap = [id \in {CallerMap, DefaultsMap}
                              \cup {FreshMap(i) : i \in Instances} |->
                         CASE id = CallerMap   -> entries
                           [] id = DefaultsMap -> defaultErrorMappings
                           [] OTHER            -> <<>>]
    /\ call = NoCall
    /\ log = <<>>
    /\ req = NoRequest
    /\ res = NoResponse
    /\ mw = NoMiddleware
    /\ result = 0
    /\ err = StandardError("Error", "unknown", Undef)
    /\ opts = defaultOptions
    /\ config = defaultConfig
    /\ meta = Absent
    /\ pc = "ready"

\* mapperA.addMapping(ErrorClass, statusCode), mapperB.addMapping(...):
\* this.customMappings.set(ErrorClass, statusCode)
AddMappingOn ==
    \E m \in Mappers, c \in InstanceClasses, st \in MappedStatuses :
        /\ heap' = [heap EXCEPT ![customMappings[m]] = MapSet(@, c, st)]
        /\ call' = [op |-> "addMapping", on |-> m, cls |-> c, status |-> st]
        /\ result' = 0
        /\ UNCHANGED <<err, opts, config, meta, pc, customMappings, log, req, res, mw>>

\* mapper.removeMapping(ErrorClass): return this.customMappings.delete(ErrorClass)
RemoveMappingOn ==
    \E m \in Mappers, c \in InstanceClasses :
        /\ heap' = [heap EXCEPT ![customMappings[m]] = MapDelete(@, c)]
        /\ call' = [op |-> "removeMapping", on |-> m, cls |-> c]
        /\ result' = IF MapHas(heap[customMappings[m]], c) THEN 1 ELSE 0
        /\ UNCHANGED <<err, opts, config, meta, pc, customMappings, log, req, res, mw>>

\* mapper.getStatusCode(error), formatter.getErrorStatusCode(error)
GetStatusCodeOn ==
    \E i \in Instances, e \in InstanceErrors :
        /\ err' = e
        /\ call' = [op |-> "getStatusCode", on |-> i]
        /\ result' = getStatusCode(TableOf(heap, customMappings, i), e)
        /\ UNCHANGED <<heap, opts, config, meta, pc, customMappings, log, req, res, mw>>

NextInstances ==
    \/ AddMappingOn
    \/ RemoveMappingOn
    \/ GetStatusCodeOn

SpecInstances == InitInstances /\ [][NextInstances]_vars

-----------------------------------------------------------------------------
(* C21                                                                     *)

\* the step is an addMapping or a removeMapping
MappingChanged == call'.op \in {"addMapping", "removeMapping"} /\ heap' # heap

\* C21: addMapping and removeMapping on one mapper change only that mapper:
\* every other mapper and the formatter return the same status for every
\* error as before the call, the Map the caller passed to the constructors
\* has the same contents as before, and so has the built-in default table.
\* Violated: the constructor keeps the caller's Map itself, not a copy, so
\* addMapping writes into the caller's Map and into every instance built
\* from it.
C21_OnlyThatMapperChanges ==
    [][MappingChanged =>
          /\ \A i \in Instances \ {call'.on} : \A e \in InstanceErrors :
                 getStatusCode(TableOf(heap', customMappings', i), e)
                     = getStatusCode(TableOf(heap, customMappings, i), e)
          /\ heap'[CallerMap] = heap[CallerMap]
          /\ heap'[DefaultsMap] = heap[DefaultsMap]]_vars

-----------------------------------------------------------------------------
(* middleware/responseWrapper                                              *)

\* header names of the requests and responses
HeaderNames == {"x-request-id", "x-trace-id", "x-correlation-id", "host"}

\* req.get(name): the request header, undefined when it was not sent
reqGet(request, name) == request.headers[name]

\* res.setHeader(name, value)
setHeader(response, name, value) ==
    [response EXCEPT !.headers = [@ EXCEPT ![name] = value]]

\* res.status(status).json(body)
sendJson(response, status, body) ==
    [response EXCEPT !.sent = Append(@, [status |-> status, body |-> body])]

\* generateRequestId(): `${Date.now().toString(36)}-${random}`, a different
\* string for each call; the ones the model draws from
GeneratedIds == {Str("lq1x2y3z-a1b2c3d4"), Str("lq1x2y40-e5f6g7h8")}

\* the skipPaths test of the middleware
Skips(skipPaths, request) == request.path \in skipPaths

\* the middleware that responseWrapper and createResponseWrapper return, up
\* to its call of next(): `captured` is the `config` of the closure,
\* `generated` the string generateRequestId() returns if it is called;
\* res.bound holds the requestId and correlationId that respond,
\* respondPaginated, respondCursorPaginated and respondError close over
responseWrapper(captured, skipPaths, request, response, generated) ==
    IF Skips(skipPaths, request)
    THEN [req |-> request, res |-> response, log |-> <<>>]
    ELSE LET header == reqGet(request, captured.requestIdHeader)
             makes  == ~Truthy(header) /\ captured.generateRequestId
             requestId == IF makes THEN generated ELSE header
             correlationId == reqGet(request, captured.correlationIdHeader)
             req1 == IF Truthy(requestId)
                     THEN [request EXCEPT !.requestId = requestId]
                     ELSE request
             res1 == IF Truthy(requestId)
                     THEN setHeader(response, captured.requestIdHeader, requestId)
                     ELSE response
             req2 == IF Truthy(correlationId)
                     THEN [req1 EXCEPT !.correlationId = correlationId]
                     ELSE req1
             res2 == IF Truthy(correlationId)
                     THEN setHeader(res1, captured.correlationIdHeader, correlationId)
                     ELSE res1
         IN  [req |-> req2,
              res |-> [res2 EXCEPT !.bound = [requestId |-> requestId,
                                              correlationId |-> correlationId]],
              log |-> IF makes
                      THEN << Invocation("generateRequestId", "", generated) >>
                      ELSE <<>>]

\* const buildMeta = (additionalMeta) => ({ ...meta, ...additionalMeta })
wrapperBuildMeta(bound, additionalMeta) ==
    LET withId == IF Truthy(bound.requestId)
                  THEN << <<K.requestId, bound.requestId>> >> ELSE <<>>
        base   == IF Truthy(bound.correlationId)
                  THEN Append(withId, <<K.correlationId, bound.correlationId>>)
                  ELSE withId
    IN  Obj(SpreadOver(base, Spread(additionalMeta)))

\* const getBaseUrl = () => `${req.protocol}://${host}${path}`
getBaseUrl(request) ==
    LET host == reqGet(request, "host")
    IN  Url(request.protocol \o "://"
                \o (IF Truthy(host) THEN host.v ELSE "localhost")
                \o request.path, <<>>)

-----------------------------------------------------------------------------
(* core/ErrorHandler and middleware/errorCatcher                           *)

\* the user-supplied transformError functions the model draws from
\*   "toValidation": () => new ValidationError('Transformed')
\*   "toPlain"     : e => new Error(e.message)
RunTransform(transformError, error) ==
    CASE transformError = "toValidation" ->
            PredefinedError("ValidationError", "Transformed", Undef, Undef, Undef)
      [] transformError = "toPlain" ->
            StandardError("Error", error.message, Undef)
      [] OTHER -> error

\* const finalError = transformError ? transformError(error) : error
\* with the invocation it makes
Transformed(transformError, error, lg) ==
    IF transformError = "none" THEN [error |-> error, log |-> lg]
    ELSE [error |-> RunTransform(transformError, error),
          log   |-> Append(lg, Invocation("transformError", transformError, error))]

\* the user-supplied handleNonOperational functions the model draws from
\*   "sends" : (error, req, res) => { res.status(500).json({ custom: 'handler' }) }
\*   "silent": () => {}
RunHandleNonOperational(callback, response) ==
    IF callback = "sends"
    THEN sendJson(response, 500, Obj(<< <<K.custom, Str("handler")>> >>))
    ELSE response

\* the user-supplied customHandler functions the model draws from
\*   "takesOver": (error, req, res) => { res.status(418).json({ custom: true }); return true }
\*   "declines" : () => false
RunCustomHandler(customHandler, response) ==
    IF customHandler = "takesOver"
    THEN [res |-> sendJson(response, 418, Obj(<< <<K.custom, True>> >>)),
          returned |-> TRUE]
    ELSE [res |-> response, returned |-> FALSE]

\* ErrorHandler.isOperationalError
isOperationalError(error) ==
    IF InstanceOf(error, "ApiError") THEN error.isOperational ELSE FALSE

\* ErrorHandler.logError: the custom logger, or console.warn / console.error
logError(options, error, lg) ==
    IF ~options.logErrors THEN lg
    ELSE IF options.errorLogger # "none"
    THEN Append(lg, Invocation("errorLogger", options.errorLogger, error))
    ELSE Append(lg, Invocation(IF isOperationalError(error) THEN "console.warn"
                               ELSE "console.error", "", error))

\* ErrorHandler.extractMeta(req), this.config being the configuration copied
\* by the constructor
extractMeta(captured, request) ==
    LET requestId     == reqGet(request, captured.requestIdHeader)
        correlationId == reqGet(request, captured.correlationIdHeader)
        withId == IF Truthy(requestId)
                  THEN << <<K.requestId, requestId>> >> ELSE <<>>
    IN  Obj(IF Truthy(correlationId)
            THEN Append(withId, <<K.correlationId, correlationId>>)
            ELSE withId)

\* what the error middleware leaves when it formats and sends `error`
SendFormatted(cfg, mappings, h, error, m, statusCode, response, lg) ==
    LET r == formatError(h, error, m, cfg)
    IN  [res |-> IF r.out = Raised THEN response
                 ELSE sendJson(response, statusCode, r.out),
         out |-> r.out,
         cfg |-> r.cfg,
         log |-> lg \o r.log]

\* faulty variant of handle: the status code is taken from the error as it
\* was thrown, before the transformation
handle_StatusOfOriginal(cfg, mappings, handler, h, error, request, response, lg) ==
    LET t == Transformed(handler.options.transformError, error,
                         logError(handler.options, error, lg))
    IN  IF ~isOperationalError(t.error)
           /\ handler.options.handleNonOperational # "none"
        THEN [res |-> RunHandleNonOperational(
                          handler.options.handleNonOperational, response),
              out |-> Absent,
              cfg |-> cfg,
              log |-> Append(t.log, Invocation("handleNonOperational",
                          handler.options.handleNonOperational, t.error))]
        ELSE SendFormatted(cfg, mappings, h, t.error,
                           extractMeta(handler.config, request),
                           getStatusCode(mappings, error), response, t.log)

\* ErrorHandler.handle(error, req, res, next)
handle(cfg, mappings, handler, h, error, request, response, lg) ==
    LET t == Transformed(handler.options.transformError, error,
                         logError(handler.options, error, lg))
    IN  IF ~isOperationalError(t.error)
           /\ handler.options.handleNonOperational # "none"
        THEN [res |-> RunHandleNonOperational(
                          handler.options.handleNonOperational, response),
              out |-> Absent,
              cfg |-> cfg,
              log |-> Append(t.log, Invocation("handleNonOperational",
                          handler.options.handleNonOperational, t.error))]
        ELSE SendFormatted(cfg, mappings, h, t.error,
                           extractMeta(handler.config, request),
                           getStatusCode(mappings, t.error), response, t.log)

\* the logging step of errorCatcher: errorLogger or console.error
catcherLog(options, error, lg) ==
    IF ~options.logErrors THEN lg
    ELSE IF options.errorLogger # "none"
    THEN Append(lg, Invocation("errorLogger", options.errorLogger, error))
    ELSE Append(lg, Invocation("console.error", "", error))

\* the meta errorCatcher builds: req.requestId and req.correlationId when
\* set, the request headers otherwise
catcherMeta(captured, request) ==
    LET requestId ==
            IF Truthy(request.requestId) THEN request.requestId
            ELSE reqGet(request, captured.requestIdHeader)
        correlationId ==
            IF Truthy(request.correlationId) THEN request.correlationId
            ELSE reqGet(request, captured.correlationIdHeader)
        withId == IF Truthy(requestId)
                  THEN << <<K.requestId, requestId>> >> ELSE <<>>
    IN  Obj(IF Truthy(correlationId)
            THEN Append(withId, <<K.correlationId, correlationId>>)
            ELSE withId)

\* faulty variant of the error middleware: it logs before it asks the
\* custom handler
errorCatcher_LogsFirst(cfg, mappings, catcher, h, error, request, response, lg) ==
    LET custom == RunCustomHandler(catcher.options.customHandler, response)
        logged == catcherLog(catcher.options, error, lg)
        asked  == IF catcher.options.customHandler = "none" THEN logged
                  ELSE Append(logged, Invocation("customHandler",
                                   catcher.options.customHandler, error))
        t      == Transformed(catcher.options.transformError, error, asked)
    IN  IF catcher.options.customHandler # "none" /\ custom.returned
        THEN [res |-> custom.res, out |-> Absent, cfg |-> cfg, log |-> asked]
        ELSE SendFormatted(cfg, mappings, h, t.error,
                 catcherMeta(catcher.config, request),
                 getStatusCode(mappings, t.error), custom.res, t.log)

\* the middleware that errorCatcher and createErrorCatcher return
errorCatcher(cfg, mappings, catcher, h, error, request, response, lg) ==
    LET custom == RunCustomHandler(catcher.options.customHandler, response)
        asked  == IF catcher.options.customHandler = "none" THEN lg
                  ELSE Append(lg, Invocation("customHandler",
                                   catcher.options.customHandler, error))
        t      == Transformed(catcher.options.transformError, error,
                              catcherLog(catcher.options, error, asked))
    IN  IF catcher.options.customHandler # "none" /\ custom.returned
        THEN [res |-> custom.res, out |-> Absent, cfg |-> cfg, log |-> asked]
        ELSE SendFormatted(cfg, mappings, h, t.error,
                 catcherMeta(catcher.config, request),
                 getStatusCode(mappings, t.error), custom.res, t.log)

-----------------------------------------------------------------------------
(* An Express application: the wrapper, a route handler, an error handler  *)
(* config is the formatter's configuration; mw holds what each middleware  *)
(* captured when it was created; pc is the position of the request         *)

\* the hooks of the application's formatter
ExpressHooks ==
    {[pre |-> <<>>,        post |-> <<>>],
     [pre |-> <<"markA">>, post |-> <<"processed">>],
     [pre |-> <<>>,        post |-> <<"raise">>]}

ExpressFormatterInputs ==
    {[requestIdHeader   |-> h,
      generateRequestId |-> g,
      preResponseHooks  |-> hooks.pre,
      postResponseHooks |-> hooks.post,
      pagination        |-> [includeLinks |-> TRUE]] :
        h \in {"x-request-id", "x-trace-id"}, g \in BOOLEAN,
        hooks \in ExpressHooks}

\* the options of the error middleware: new ErrorHandler(formatter, options)
\* or createErrorCatcher(formatter, options); an option left out is "none"
Logging ==
    {[logErrors |-> FALSE, errorLogger |-> "custom"],
     [logErrors |-> TRUE,  errorLogger |-> "none"],
     [logErrors |-> TRUE,  errorLogger |-> "custom"]}

ErrorMiddlewares ==
    {[kind |-> "ErrorHandler",
      options |-> [logErrors |-> l.logErrors, errorLogger |-> l.errorLogger,
                   transformError |-> t, handleNonOperational |-> n,
                   customHandler |-> "none"]] :
        l \in Logging, t \in {"none", "toValidation", "toPlain"},
        n \in {"none", "sends", "silent"}}
      \cup
    {[kind |-> "errorCatcher",
      options |-> [logErrors |-> l.logErrors, errorLogger |-> l.errorLogger,
                   transformError |-> t, handleNonOperational |-> "none",
                   customHandler |-> c]] :
        l \in Logging, t \in {"none", "toValidation", "toPlain"},
        c \in {"none", "takesOver", "declines"}}

\* the errors a route handler throws
ThrownErrors ==
    {ApiError("ApiError", "Test", "TEST", SomeNumber(400), Undef, Undef, Undef),
     WithOptions(ApiError("ApiError", "Fatal", "FATAL", SomeNumber(418),
                          Undef, Undef, Undef), Undef, FALSE),
     PredefinedError("NotFoundError", "Not found", Undef, Undef, Undef),
     PredefinedError("InternalServerError", "Critical error", Undef, Undef, Undef),
     StandardError("CustomError", "Original", Undef)}

\* the requests that reach the application
Requests ==
    {[path |-> "/test", method |-> m, protocol |-> "http",
      headers |-> [n \in HeaderNames |->
                      CASE n = idHeader           -> id
                        [] n = "x-correlation-id" -> corr
                        [] OTHER                  -> Undef],
      requestId |-> Undef, correlationId |-> Undef] :
        m \in {M.GET, M.DELETE},
        idHeader \in {"x-request-id", "x-trace-id"},
        id \in {Undef, Str("custom-id")}, corr \in {Undef, Str("corr-1")}}
      \cup
    {[path |-> "/health", method |-> M.GET, protocol |-> "http",
      headers |-> [n \in HeaderNames |-> Undef],
      requestId |-> Undef, correlationId |-> Undef]}

\* the response object Express hands to the middleware
FreshResponse ==
    [headers |-> [n \in HeaderNames |-> Undef], sent |-> <<>>, bound |-> Absent]

\* const formatter = new ResponseFormatter({...});
\* app.use(createResponseWrapper(formatter, { skipPaths })); ... routes ...
\* app.use(createErrorCatcher(formatter, options)) or
\* app.use(new ErrorHandler(formatter, options).middleware());
\* each of them keeps formatter.getConfig() as it is at that moment
InitApplication(errorMiddlewares) ==
    /\ config \in {mergeConfig(i) : i \in ExpressFormatterInputs}
    /\ \E e \in errorMiddlewares :
           mw = [kind |-> "responseWrapper", skipPaths |-> {"/health"},
                 config |-> config,
                 errors |-> [kind |-> e.kind, options |-> e.options,
                             config |-> config]]
    /\ customMappings = << <<"CustomError", 422>> >>
    /\ heap = EmptyHeap
    /\ err = StandardError("Error", "unknown", Undef)
    /\ opts = defaultOptions
    /\ meta = Absent
    /\ result = Absent
    /\ pc = "idle"
    /\ call = NoCall
    /\ log = <<>>
    /\ req = NoRequest
    /\ res = NoResponse

\* an application whose error middleware is errorCatcher with its defaults
InitExpress ==
    InitApplication({[kind |-> "errorCatcher",
                      options |-> [logErrors |-> TRUE, errorLogger |-> "none",
                                   transformError |-> "none",
                                   handleNonOperational |-> "none",
                                   customHandler |-> "none"]]})

\* the applications with every error middleware and every choice of options
InitFailure == InitApplication(ErrorMiddlewares)

\* a request arrives and runs through the wrapper middleware to next()
Arrive ==
    /\ pc = "idle"
    /\ \E request \in Requests, generated \in GeneratedIds :
         \E r \in {responseWrapper(mw.config, mw.skipPaths, request,
                                   FreshResponse, generated)} :
             /\ req' = r.req
             /\ res' = r.res
             /\ log' = r.log
    /\ pc' = "handler"
    /\ call' = [op |-> "responseWrapper"]
    /\ UNCHANGED <<heap, err, opts, result, config, meta, customMappings, mw>>

\* the exception a hook of the formatter throws
HookFailure == StandardError("Error", "hook failed", Undef)

\* what a respond method leaves: the response is sent, or the exception of
\* the formatter leaves the handler and reaches the error middleware
Responded(r, status, c) ==
    /\ pc = "handler"
    /\ res.bound # Absent
    /\ \E v \in {r} :
           /\ res' = IF v.out = Raised THEN res ELSE sendJson(res, status, v.out)
           /\ result' = v.out
           /\ log' = log \o v.log
           /\ config' = v.cfg
           /\ pc' = IF v.out = Raised THEN "failed" ELSE "sent"
           /\ err' = IF v.out = Raised THEN HookFailure ELSE err
    /\ call' = c
    /\ UNCHANGED <<heap, opts, customMappings, req, mw>>

\* res.respond(data, meta, statusCode)
Respond ==
    \E data \in {Obj(<< <<K.id, Num("1")>> >>), Undef}, m \in Metas,
       statusCode \in {0, 202} :
        /\ meta' = m
        /\ Responded(formatSuccess(data, wrapperBuildMeta(res.bound, m), config),
                     IF statusCode # 0 THEN statusCode
                     ELSE getSuccessStatusCode(req.method, data # Undef),
                     [op |-> "respond", data |-> data, statusCode |-> statusCode])

\* res.respondPaginated(data, pagination, meta)
RespondPaginated ==
    \E m \in Metas,
       p \in {[page |-> Whole(2), limit |-> Whole(10), total |-> Whole(35)]} :
        /\ meta' = m
        /\ Responded(formatPaginated(Arr(<<Num("1"), Num("2")>>), p,
                         wrapperBuildMeta(res.bound, m), getBaseUrl(req), config),
                     200, [op |-> "respondPaginated", pagination |-> p])

\* res.respondCursorPaginated(data, pagination, meta)
RespondCursorPaginated ==
    \E m \in Metas,
       p \in {[limit |-> Whole(10), hasMore |-> TRUE, cursor |-> Undef,
               nextCursor |-> Text(<<"n","e","x","t">>),
               previousCursor |-> Undef]} :
        /\ meta' = m
        /\ Responded(formatCursorPaginated(Arr(<<Num("1"), Num("2")>>), p,
                         wrapperBuildMeta(res.bound, m), getBaseUrl(req), config),
                     200, [op |-> "respondCursorPaginated", pagination |-> p])

\* res.respondError(error, meta)
RespondError ==
    \E m \in Metas, e \in SharedErrors :
        /\ meta' = m
        /\ pc = "handler"
        /\ res.bound # Absent
        /\ \E v \in {formatError(heap, e, wrapperBuildMeta(res.bound, m), config)} :
               /\ res' = IF v.out = Raised THEN res
                         ELSE sendJson(res, getStatusCode(customMappings, e), v.out)
               /\ result' = v.out
               /\ log' = log \o v.log
               /\ config' = v.cfg
               /\ pc' = IF v.out = Raised THEN "failed" ELSE "sent"
               /\ err' = IF v.out = Raised THEN HookFailure ELSE e
        /\ call' = [op |-> "respondError"]
        /\ UNCHANGED <<heap, opts, customMappings, req, mw>>

\* the route handler throws, or passes an error to next(error)
HandlerThrows ==
    /\ pc = "handler"
    /\ \E e \in ThrownErrors : err' = e
    /\ pc' = "failed"
    /\ call' = [op |-> "throw"]
    /\ UNCHANGED <<heap, opts, result, config, meta, customMappings, log,
                   req, res, mw>>

\* what the error middleware leaves; an exception of the formatter goes on
\* to the default handler of Express
Handled(r, c) ==
    /\ pc = "failed"
    /\ \E v \in {r} :
           /\ res' = v.res
           /\ result' = v.out
           /\ log' = v.log
           /\ config' = v.cfg
           /\ pc' = IF v.out = Raised THEN "crashed" ELSE "handled"
    /\ call' = c
    /\ UNCHANGED <<heap, err, opts, meta, customMappings, req, mw>>

\* errorHandler.middleware(): this.handle(error, req, res, next)
HandleError ==
    /\ mw.errors.kind = "ErrorHandler"
    /\ Handled(handle(config, customMappings, mw.errors, heap, err, req, res, <<>>),
               [op |-> "handle"])

\* the middleware of errorCatcher / createErrorCatcher
CatchError ==
    /\ mw.errors.kind = "errorCatcher"
    /\ Handled(errorCatcher(config, customMappings, mw.errors, heap, err, req,
                            res, <<>>),
               [op |-> "errorCatcher"])

\* a handler behind a skipped path answers with res.json itself
PlainHandler ==
    /\ pc = "handler"
    /\ res.bound = Absent
    /\ res' = sendJson(res, 200, Obj(<< <<K.id, Num("1")>> >>))
    /\ pc' = "sent"
    /\ call' = [op |-> "json"]
    /\ UNCHANGED <<heap, err, opts, result, config, meta, customMappings, log,
                   req, mw>>

\* the response has gone out; the application waits for the next request
NextExpressRequest ==
    /\ pc \in {"sent", "handled", "crashed"}
    /\ pc' = "idle"
    /\ req' = NoRequest
    /\ res' = NoResponse
    /\ log' = <<>>
    /\ call' = NoCall
    /\ result' = Absent
    /\ meta' = Absent
    /\ err' = StandardError("Error", "unknown", Undef)
    /\ UNCHANGED <<heap, opts, config, customMappings, mw>>

NextExpress ==
    \/ Arrive
    \/ Respond
    \/ RespondPaginated
    \/ RespondCursorPaginated
    \/ RespondError
    \/ PlainHandler
    \/ HandlerThrows
    \/ CatchError
    \/ NextExpressRequest

SpecExpress == InitExpress /\ [][NextExpress]_vars

\* the requests whose handler fails
NextFailure ==
    \/ Arrive
    \/ HandlerThrows
    \/ HandleError
    \/ CatchError
    \/ NextExpressRequest

SpecFailure == InitFailure /\ [][NextFailure]_vars

-----------------------------------------------------------------------------
(* C22                                                                     *)

RespondMethods ==
    {"respond", "respondPaginated", "respondCursorPaginated", "respondError"}

\* a respond method of a wrapped request has sent its body
WrappedSent == pc = "sent" /\ call.op \in RespondMethods

\* the identifiers generateRequestId produced for the request
GeneratedFor == InvocationsOf({"generateRequestId"})

\* the request has an ID: it brought one, or generateRequestId is on
HasRequestId ==
    Truthy(reqGet(req, mw.config.requestIdHeader)) \/ mw.config.generateRequestId

\* the value of the incoming header when present, otherwise the generated one
RequestIdOf ==
    IF Truthy(reqGet(req, mw.config.requestIdHeader))
    THEN reqGet(req, mw.config.requestIdHeader)
    ELSE GeneratedFor[1].arg

\* meta.requestId of the body that was sent
SentRequestId ==
    LET body == res.sent[Len(res.sent)].body
    IN  IF body.meta = Absent THEN Undef ELSE GetProp(body.meta, K.requestId)

\* C22: for every request the wrapper does not skip, the request ID is the
\* incoming request-ID header when present and otherwise one ID generated
\* once; the response's request-ID header and meta.requestId of the body sent
\* by respond, respondPaginated, respondCursorPaginated or respondError both
\* equal it, whatever meta the handler passes.
\* Violated: buildMeta spreads the handler's meta over the request's, so a
\* meta argument with a requestId of its own replaces the ID in the body.
C22_OneRequestIdEverywhere ==
    (WrappedSent /\ HasRequestId) =>
        /\ Len(GeneratedFor) =
               (IF Truthy(reqGet(req, mw.config.requestIdHeader)) THEN 0 ELSE 1)
        /\ res.headers[mw.config.requestIdHeader] = RequestIdOf
        /\ SentRequestId = RequestIdOf

\* the part of C22 that holds: the header always carries the ID, and so does
\* the body whenever the handler's meta names no requestId of its own
C22_HoldsWithoutOwnRequestId ==
    (WrappedSent /\ HasRequestId) =>
        /\ Len(GeneratedFor) =
               (IF Truthy(reqGet(req, mw.config.requestIdHeader)) THEN 0 ELSE 1)
        /\ res.headers[mw.config.requestIdHeader] = RequestIdOf
        /\ (meta = Absent \/ GetProp(meta, K.requestId) = Undef)
               => SentRequestId = RequestIdOf

-----------------------------------------------------------------------------
(* C23                                                                     *)

\* ErrorHandler.handle has run for the error in err
HandleDone == pc \in {"handled", "crashed"} /\ call.op = "handle"

\* the error after the configured transformation
TransformedError == RunTransform(mw.errors.options.transformError, err)

\* the three stages of an invocation: logging, transformation, dispatch
Stage(kind) ==
    CASE kind \in {"errorLogger", "console.warn", "console.error"} -> 1
      [] kind = "transformError" -> 2
      [] OTHER -> 3

\* the error details formatError puts into the body for an error
DetailsOf(error) ==
    serializeError(heap, error,
        [includeStack      |-> IncludeStack(config),
         maskSensitiveData |-> config.maskSensitiveData,
         sensitiveFields   |-> config.sensitiveFields,
         customSerializers |-> config.customSerializers])

\* the non-operational case: the transformed error is not an ApiError or has
\* isOperational false, and handleNonOperational is configured
GoesToCallback ==
    /\ mw.errors.options.handleNonOperational # "none"
    /\ ~(InstanceOf(TransformedError, "ApiError") /\ TransformedError.isOperational)

\* a body that is an envelope of the formatter
IsEnvelope(body) == "success" \in DOMAIN body

\* C23: ErrorHandler.handle processes each error in the order log,
\* transform, dispatch: the logger receives the original error; the status
\* code and the body are computed from the transformed error; and when the
\* transformed error is non-operational and handleNonOperational is
\* configured, that callback is invoked (with the transformed error) and the
\* handler itself sends no formatted response.
C23_LogTransformDispatch ==
    HandleDone =>
        /\ \A i, j \in 1..Len(log) : i < j => Stage(log[i].kind) <= Stage(log[j].kind)
        /\ \A i \in 1..Len(log) : Stage(log[i].kind) \in {1, 2} => log[i].arg = err
        /\ Len(InvocationsOf({"errorLogger", "console.warn", "console.error"}))
               = (IF mw.errors.options.logErrors THEN 1 ELSE 0)
        /\ Len(InvocationsOf({"transformError"}))
               = (IF mw.errors.options.transformError = "none" THEN 0 ELSE 1)
        /\ IF GoesToCallback
           THEN /\ InvocationsOf({"handleNonOperational"})
                       = << Invocation("handleNonOperational",
                                mw.errors.options.handleNonOperational,
                                TransformedError) >>
                /\ \A i \in 1..Len(res.sent) : ~IsEnvelope(res.sent[i].body)
           ELSE /\ InvocationsOf({"handleNonOperational"}) = <<>>
                /\ pc = "handled" =>
                      /\ Len(res.sent) = 1
                      /\ res.sent[1].status
                             = getStatusCode(customMappings, TransformedError)
                      /\ IsEnvelope(res.sent[1].body)
                      /\ res.sent[1].body.error = DetailsOf(TransformedError)

\* an operational error was logged, then turned into a plain Error, and so
\* went to handleNonOperational, which sent its own body
C23_Witness ==
    /\ HandleDone
    /\ mw.errors.options.logErrors
    /\ mw.errors.options.transformError = "toPlain"
    /\ mw.errors.options.handleNonOperational = "sends"
    /\ InstanceOf(err, "ApiError") /\ err.isOperational
    /\ Len(log) = 3
    /\ Len(res.sent) = 1

-----------------------------------------------------------------------------
(* C24                                                                     *)

\* the error middleware of errorCatcher has run for the error in err
CatchDone == pc \in {"handled", "crashed"} /\ call.op = "errorCatcher"

\* the configured customHandler returned true
TookOver ==
    /\ mw.errors.options.customHandler # "none"
    /\ RunCustomHandler(mw.errors.options.customHandler, res).returned

\* the responses in res.sent that are envelopes of the formatter
EnvelopesSent ==
    LET IsFormatted(s) == IsEnvelope(s.body) IN SelectSeq(res.sent, IsFormatted)

-----------------------------------------------------------------------------
(* ResponseFormatter: constructor, updateConfig, getConfig                 *)
(* log holds the inputs of the constructor and of the updateConfig calls   *)

\* { ...this.config, ...config }: the keys of config replace those of
\* this.config, each as a whole
SpreadConfig(cfg, input) ==
    [k \in DOMAIN cfg \cup DOMAIN input |->
        IF k \in DOMAIN input THEN input[k] ELSE cfg[k]]

\* new StatusCodeMapper(customErrorMappers): the table of the new mapper
MapperFor(customErrorMappers) ==
    IF customErrorMappers.present THEN customErrorMappers.entries ELSE <<>>

\* ResponseFormatter.updateConfig(config): the configuration and the
\* mapper's table after the call
updateConfig(cfg, mappings, input) ==
    [cfg      |-> mergeConfig(SpreadConfig(cfg, input)),
     mappings |-> IF "customErrorMappers" \in DOMAIN input
                     /\ input.customErrorMappers.present
                  THEN MapperFor(input.customErrorMappers)
                  ELSE mappings]

\* ResponseFormatter.getConfig(): { ...this.config }
getConfig(cfg) == [k \in DOMAIN cfg |-> cfg[k]]

\* the FormatterConfigInput objects given to the constructor and to
\* updateConfig
ConfigInputs ==
    { [environment |-> "development"],
      [environment |-> "test", generateRequestId |-> FALSE],
      [requestIdHeader |-> "x-trace-id"],
      [pagination |-> [defaultLimit |-> Whole(20)]],
      [pagination |-> [maxLimit |-> Whole(50)]],
      [pagination |-> [includeLinks |-> TRUE, maxLimit |-> Whole(200)]],
      [customErrorMappers |-> SomeMap(<< <<"CustomError", 422>> >>)],
      [customErrorMappers |-> SomeMap(<< <<"SubCustomError", 418>> >>),
       environment |-> "staging"] }

\* the number of updateConfig calls the model follows
MaxUpdates == 3

\* new ResponseFormatter(input)
InitConfig ==
    /\ \E input \in ConfigInputs :
           /\ config = mergeConfig(input)
           /\ customMappings = MapperFor(mergeConfig(input).customErrorMappers)
           /\ log = << Invocation("constructor", "", input) >>
    /\ heap = EmptyHeap
    /\ err = StandardError("Error", "unknown", Undef)
    /\ opts = defaultOptions
    /\ meta = Absent
    /\ result = Absent
    /\ pc = "ready"
    /\ call = NoCall
    /\ req = NoRequest
    /\ res = NoResponse
    /\ mw = NoMiddleware

\* formatter.updateConfig(input)
UpdateConfig ==
    /\ Len(log) <= MaxUpdates
    /\ \E input \in ConfigInputs :
         \E r \in {updateConfig(config, customMappings, input)} :
           /\ config' = r.cfg
           /\ customMappings' = r.mappings
           /\ log' = Append(log, Invocation("updateConfig", "", input))
    /\ call' = [op |-> "updateConfig"]
    /\ result' = Absent
    /\ UNCHANGED <<heap, err, opts, pc, meta, req, res, mw>>

\* formatter.getConfig()
GetConfig ==
    /\ result' = getConfig(config)
    /\ call' = [op |-> "getConfig"]
    /\ UNCHANGED <<heap, err, opts, pc, config, meta, customMappings, log,
                   req, res, mw>>

\* formatter.getErrorStatusCode(error); the number returned is held as the
\* whole number Whole(n), as the other numbers of the configuration are
GetErrorStatusCode ==
    /\ \E e \in {StandardError(c, "Test", Undef) :
                    c \in {"Error", "CustomError", "SubCustomError"}} :
           /\ err' = e
           /\ result' = Whole(getStatusCode(customMappings, e))
    /\ call' = [op |-> "getErrorStatusCode"]
    /\ UNCHANGED <<heap, opts, pc, config, meta, customMappings, log,
                   req, res, mw>>

NextConfig ==
    \/ UpdateConfig
    \/ GetConfig
    \/ GetErrorStatusCode

SpecConfig == InitConfig /\ [][NextConfig]_vars

-----------------------------------------------------------------------------
(* C25                                                                     *)

\* the calls, constructor included, whose input supplied the setting k
SuppliedBy(k) == {i \in 1..Len(log) : k \in DOMAIN log[i].arg}

\* the calls whose input supplied the pagination field f
PaginationSuppliedBy(f) ==
    {i \in SuppliedBy("pagination") : f \in DOMAIN log[i].arg.pagination}

LatestOf(S) == CHOOSE i \in S : \A j \in S : j <= i

\* the value the most recent supplying call gave, the default otherwise
ExpectedSetting(k) ==
    IF SuppliedBy(k) = {} THEN defaultConfig[k]
    ELSE log[LatestOf(SuppliedBy(k))].arg[k]

ExpectedPaginationField(f) ==
    IF PaginationSuppliedBy(f) = {} THEN defaultConfig.pagination[f]
    ELSE log[LatestOf(PaginationSuppliedBy(f))].arg.pagination[f]

\* C25: after any sequence of updateConfig calls on a ResponseFormatter,
\* getConfig returns for every setting, including each individual pagination
\* field, the value given by the most recent call that supplied it, or the
\* constructor or default value when no call supplied it; and
\* getErrorStatusCode uses the most recently supplied customErrorMappers.
\* Violated: updateConfig replaces the pagination object as a whole and
\* merges it with the defaults, so a pagination field given earlier and left
\* out of the latest pagination object falls back to its default.
C25_LatestSuppliedValueWins ==
    /\ call.op = "getConfig" =>
          /\ \A k \in DOMAIN defaultConfig \ {"pagination"} :
                 result[k] = ExpectedSetting(k)
          /\ \A f \in DOMAIN defaultConfig.pagination :
                 result.pagination[f] = ExpectedPaginationField(f)
    /\ call.op = "getErrorStatusCode" =>
          result = Whole(getStatusCode(
                             MapperFor(ExpectedSetting("customErrorMappers")), err))

\* the part of C25 that holds: every setting outside pagination, and the
\* mapper behind getErrorStatusCode
C25_HoldsOutsidePagination ==
    /\ call.op = "getConfig" =>
          \A k \in DOMAIN defaultConfig \ {"pagination"} :
              result[k] = ExpectedSetting(k)
    /\ call.op = "getErrorStatusCode" =>
          result = Whole(getStatusCode(
                             MapperFor(ExpectedSetting("customErrorMappers")), err))

-----------------------------------------------------------------------------
(* C26                                                                     *)

\* paginateArray has returned
ArrayPaginated == pc = "done" /\ call.op = "paginateArray"

\* the items at positions first..last of the array, counted from 0
ItemsBetween(items, first, last) ==
    SelectSeq(items, LAMBDA x : first < x /\ x <= last + 1)

\* what the claim expects for the page and limit the block reports
ExpectedPage(items, p, l) == ItemsBetween(items, (p - 1) * l, p * l - 1)

\* C26: for every array, page and limit, paginateArray returns
\* pagination.total equal to the array length and data equal to the items at
\* positions (p-1)*l up to p*l-1, where p and l are the page and limit
\* reported in the returned pagination block; so data never holds more than
\* pagination.limit items and is empty when the page lies beyond the last.
\* Violated: the slice is cut with the page and limit as passed, the block
\* reports them as validated (page at least 1, limit within 1..maxLimit, 0
\* replaced by the default).
C26_DataMatchesReportedPage ==
    ArrayPaginated =>
        /\ result.pagination.total = call.input.total
        /\ result.data = ExpectedPage(ItemsOf(call.input.total.n),
                                      result.pagination.page.n,
                                      result.pagination.limit.n)
        /\ Len(result.data) <= result.pagination.limit.n

\* the part of C26 that holds: when page and limit are already valid for the
\* helper (page >= 1, 1 <= limit <= maxLimit) the data is the reported page
C26_HoldsForValidInput ==
    (/\ ArrayPaginated
     /\ call.input.page.n >= 1
     /\ call.input.limit.n >= 1
     /\ ~JsLess(config.pagination.maxLimit, call.input.limit)) =>
        /\ result.pagination.total = call.input.total
        /\ result.data = ExpectedPage(ItemsOf(call.input.total.n),
                                      result.pagination.page.n,
                                      result.pagination.limit.n)
        /\ Len(result.data) <= result.pagination.limit.n

-----------------------------------------------------------------------------
(* An application whose formatter is reconfigured between requests         *)

\* the FormatterConfigInput objects the application passes to updateConfig
Reconfigurations ==
    { [requestIdHeader |-> "x-trace-id"],
      [requestIdHeader |-> "x-request-id", generateRequestId |-> TRUE],
      [generateRequestId |-> FALSE],
      [correlationIdHeader |-> "x-trace-id"] }

\* createResponseWrapper(formatter), then createErrorCatcher(formatter) or
\* new ErrorHandler(formatter), each with its default options
InitReconfigure ==
    InitApplication({[kind |-> k,
                      options |-> [logErrors |-> TRUE, errorLogger |-> "none",
                                   transformError |-> "none",
                                   handleNonOperational |-> "none",
                                   customHandler |-> "none"]] :
                        k \in {"errorCatcher", "ErrorHandler"}})

\* formatter.updateConfig(input), called by the application while no request
\* is being served; the middleware were created before and are not touched
ReconfigureFormatter ==
    /\ pc = "idle"
    /\ \E input \in Reconfigurations :
         \E r \in {updateConfig(config, customMappings, input)} :
           /\ config' = r.cfg
           /\ customMappings' = r.mappings
    /\ call' = [op |-> "updateConfig"]
    /\ UNCHANGED <<heap, err, opts, result, pc, meta, log, req, res, mw>>

NextReconfigure ==
    \/ ReconfigureFormatter
    \/ Arrive
    \/ Respond
    \/ PlainHandler
    \/ HandlerThrows
    \/ HandleError
    \/ CatchError
    \/ NextExpressRequest

SpecReconfigure == InitReconfigure /\ [][NextReconfigure]_vars

-----------------------------------------------------------------------------
(* C27                                                                     *)

\* the settings the middleware read from the configuration they hold
TracingSettings == {"requestIdHeader", "correlationIdHeader", "generateRequestId"}

\* C27: a middleware created from a formatter (createResponseWrapper,
\* createErrorCatcher, ErrorHandler) and that formatter always agree on
\* configuration: after any sequence of updateConfig calls on the formatter,
\* the request-ID header name, correlation-ID header name and
\* generateRequestId setting that the middleware uses for the next request
\* equal those returned by formatter.getConfig().
\* Violated: each middleware copies formatter.getConfig() once, when it is
\* created, and updateConfig puts a new object in the formatter.
C27_MiddlewareFollowsFormatter ==
    pc = "idle" =>
        \A k \in TracingSettings :
            /\ mw.config[k] = getConfig(config)[k]
            /\ mw.errors.config[k] = getConfig(config)[k]

-----------------------------------------------------------------------------
(* C28                                                                     *)

\* the error middleware has sent an envelope for a request to which the
\* wrapper had assigned a request ID
WrappedFailureSent ==
    /\ pc = "handled"
    /\ call.op \in {"handle", "errorCatcher"}
    /\ res.bound # Absent
    /\ Truthy(req.requestId)
    /\ EnvelopesSent # <<>>

\* meta.requestId of the envelope the error middleware sent
FailureRequestId ==
    LET body == EnvelopesSent[1].body
    IN  IF body.meta = Absent THEN Undef ELSE GetProp(body.meta, K.requestId)

\* C28: for a request that passed through responseWrapper and then failed,
\* ErrorHandler and errorCatcher produce the same meta in the error body:
\* meta.requestId equals the request ID that responseWrapper assigned to the
\* request and set in the response header, both when the ID came from the
\* incoming header and when responseWrapper generated it.
\* Violated: ErrorHandler.extractMeta reads the incoming request header
\* only, so an ID that the wrapper generated is missing from its body.
C28_SameRequestIdInErrorBody ==
    WrappedFailureSent =>
        /\ res.headers[mw.config.requestIdHeader] = req.requestId
        /\ FailureRequestId = req.requestId
        /\ extractMeta(mw.errors.config, req) = catcherMeta(mw.errors.config, req)

\* the part of C28 that holds: errorCatcher always carries the wrapper's ID,
\* and ErrorHandler does when the ID came with the request
C28_HoldsForIncomingId ==
    (/\ WrappedFailureSent
     /\ \/ call.op = "errorCatcher"
        \/ Truthy(reqGet(req, mw.config.requestIdHeader))) =>
        /\ res.headers[mw.config.requestIdHeader] = req.requestId
        /\ FailureRequestId = req.requestId

-----------------------------------------------------------------------------
(* C29: the default table never decides                                    *)

\* the status the lookup gives when the default table is left out
StatusWithoutDefaults(mappings, error) ==
    IF InstanceOf(error, "ApiError") THEN error.statusCode
    ELSE IF \E i \in 1..Len(mappings) : InstanceOf(error, mappings[i][1])
    THEN mappings[FirstIndex({i \in 1..Len(mappings) :
                                  InstanceOf(error, mappings[i][1])})][2]
    ELSE 500

\* the custom table without its entries for ApiError and its subclasses
WithoutApiErrorEntries(mappings) ==
    SelectSeq(mappings, LAMBDA e : ~SubclassOf(e[1], "ApiError"))

\* C29: for every error and every custom table, getStatusCode returns the
\* error's statusCode when the error is an ApiError, otherwise the status of
\* the first custom entry the error is an instance of, otherwise 500: the
\* default table decides nothing, and dropping the custom entries registered
\* for ApiError or its subclasses changes no returned status
C29_DefaultTableNeverDecides ==
    call.op = "getStatusCode"
        => /\ result = StatusWithoutDefaults(customMappings, err)
           /\ result = getStatusCode(WithoutApiErrorEntries(customMappings),
                                     err)
           /\ MatchingMappings(err, defaultErrorMappings) # {}
                  => InstanceOf(err, "ApiError")

\* a RateLimitError looked up while the custom table maps RateLimitError to
\* a status other than its own 429 (the README registers RateLimitError)
C29_Witness ==
    /\ call.op = "getStatusCode"
    /\ err.cls = "RateLimitError"
    /\ \E i \in 1..Len(customMappings) :
           /\ customMappings[i][1] = "RateLimitError"
           /\ customMappings[i][2] = 418
    /\ MatchingMappings(err, defaultErrorMappings) # {}
    /\ result = 429

-----------------------------------------------------------------------------
(* Errors that are given a context before they are formatted               *)

\* the context option of the constructor: none, or { user: 'u1' }, or a
\* requestId of its own
ConstructedContexts ==
    {Undef, Obj(<< <<K.user, Str("u1")>> >>),
     Obj(<< <<K.requestId, Str("req-000")>>, <<K.user, Str("u1")>> >>)}

\* the errors a handler constructs before it adds a context
ContextErrors ==
    {WithOptions(ApiError("ApiError", "Test", "TEST", SomeNumber(418),
                          d, Undef, Undef), c, op) :
         d \in {Undef, Ref(CoreId)},
         c \in ConstructedContexts, op \in BOOLEAN}
      \cup {WithOptions(PredefinedError(cls, "Predefined", Undef, Undef, Undef),
                        c, cls # "InternalServerError") :
               cls \in {"ValidationError", "NotFoundError", "InternalServerError"},
               c \in ConstructedContexts}

\* customSerializers of the formatter that will format the error
ContextSerializers ==
    {<<>>, << <<"ValidationError", "fields">> >>, << <<"ApiError", "bare">> >>,
     << <<"NotFoundError", "fields">>, <<"ApiError", "bare">> >>}

\* a formatter has been configured and a handler is about to fail
InitContext ==
    /\ \E cs \in ContextSerializers :
           opts = [defaultOptions EXCEPT !.customSerializers = cs]
    /\ customMappings \in {<<>>, << <<"ValidationError", 422>> >>}
    /\ err = StandardError("Error", "unknown", Undef)
    /\ result = Absent
    /\ call = NoCall
    /\ pc = "ready"
    /\ config = defaultConfig
    /\ heap = EmptyHeap
    /\ meta = Absent
    /\ log = <<>>
    /\ req = NoRequest
    /\ res = NoResponse
    /\ mw = NoMiddleware

\* const error = new ApiError(...) or new ValidationError(...), ...
ConstructError ==
    /\ pc = "ready"
    /\ \E e \in ContextErrors : err' = e
    /\ call' = [op |-> "new"]
    /\ result' = Absent
    /\ pc' = "made"
    /\ UNCHANGED <<heap, opts, config, meta, customMappings, log, req, res, mw>>

\* const derived = error.withContext(context): err is the receiver as it is
\* after the call, result the error returned
DeriveWithContext ==
    /\ pc = "made"
    /\ \E context \in GivenContexts \ {Undef} :
           /\ result' = withContext(err, context)
           /\ call' = [op |-> "withContext", context |-> context, original |-> err]
    /\ pc' = "derived"
    /\ UNCHANGED <<heap, err, opts, config, meta, customMappings, log, req, res, mw>>

\* const derived = createError(ErrorClass, message, context): err is a fresh
\* instance of ErrorClass, result the error returned
DeriveCreateError ==
    /\ pc = "ready"
    /\ \E cls \in PredefinedErrors, context \in GivenContexts :
           /\ err' = PredefinedError(cls, "Created", Undef, Undef, Undef)
           /\ result' = createError(cls, "Created", context)
           /\ call' = [op |-> "createError", context |-> context,
                       original |-> PredefinedError(cls, "Created", Undef, Undef, Undef)]
    /\ pc' = "derived"
    /\ UNCHANGED <<heap, opts, config, meta, customMappings, log, req, res, mw>>

\* the error middleware formats the derived error:
\* res.status(getStatusCode(derived)).json(serializeError(derived, options))
SendDerived ==
    /\ pc = "derived"
    /\ res' = [sent |-> << [status |-> getStatusCode(customMappings, result),
                            body   |-> serializeError(heap, result, opts)] >>]
    /\ pc' = "sent"
    /\ UNCHANGED <<heap, err, opts, result, config, meta, customMappings, call, log, req, mw>>

\* the next request
NextContextRequest ==
    /\ pc = "sent"
    /\ pc' = "ready"
    /\ res' = NoResponse
    /\ UNCHANGED <<heap, err, opts, result, config, meta, customMappings, call, log, req, mw>>

NextContext ==
    \/ ConstructError
    \/ DeriveWithContext
    \/ DeriveCreateError
    \/ SendDerived
    \/ NextContextRequest

SpecContext == InitContext /\ [][NextContext]_vars

-----------------------------------------------------------------------------
(* C30: withContext and createError preserve how an error is dispatched    *)

\* withContext or createError with a context has returned
Derived ==
    /\ pc \in {"derived", "sent"}
    /\ call.op \in {"withContext", "createError"}

\* { ...original.context, ...given } as the entries of the expected context
OverlaidContext(original, given) ==
    SpreadOver(Spread(original.context), Spread(given))

\* the derived error carries what the original carries, and its context is
\* the original's overlaid with the given one
KeepsFields(original, derived, given) ==
    /\ derived.code = original.code
    /\ derived.statusCode = original.statusCode
    /\ derived.details = original.details
    /\ derived.fields = original.fields
    /\ derived.isOperational = original.isOperational
    /\ Truthy(given) => Spread(derived.context) = OverlaidContext(original, given)

\* the derived error is an instance of every class the original is one of
KeepsClass(original, derived) ==
    \A c \in PredefinedErrors \cup {"ApiError", "Error"} :
        InstanceOf(original, c) => InstanceOf(derived, c)

\* the same custom serializer and the same status are selected
KeepsDispatch(original, derived) ==
    /\ MatchingSerializers(derived, opts.customSerializers)
           = MatchingSerializers(original, opts.customSerializers)
    /\ getStatusCode(customMappings, derived)
           = getStatusCode(customMappings, original)

\* C30: the error that withContext or createError returns has the code,
\* statusCode, details, fields and isOperational of the original (of a fresh
\* instance of ErrorClass), its context is the original's context overlaid
\* with the given one, it is an instance of the original's class, so the
\* same custom serializer and status are selected for it, and the original
\* is as it was before the call
C30_ContextPreservesDispatch ==
    Derived
        => /\ KeepsFields(err, result, call.context)
           /\ KeepsClass(err, result)
           /\ KeepsDispatch(err, result)
           /\ err = call.original

\* the part of C30 that the code keeps: fields, overlaid context, status,
\* and the original left as it was
C30_HoldsApartFromClass ==
    Derived
        => /\ KeepsFields(err, result, call.context)
           /\ getStatusCode(customMappings, result)
                  = getStatusCode(customMappings, err)
           /\ err = call.original
           /\ InstanceOf(result, "ApiError")

\* a ValidationError whose context had a requestId was given another one,
\* while the formatter has a custom serializer for ValidationError
C30_ClassLostCase ==
    /\ pc = "sent"
    /\ call.op = "withContext"
    /\ err.cls = "ValidationError"
    /\ err.context.t = "obj"
    /\ GetProp(err.context, K.requestId) = Str("req-000")
    /\ GetProp(result.context, K.requestId) = Str("req-123")
    /\ GetProp(result.context, K.user) = Str("u1")
    /\ MatchingSerializers(err, opts.customSerializers) # {}

=============================================================================
